---- MODULE Spec2Model ----
(***************************************************************************)
(* A model of the Sand virtual machine (paginated Memory, Processor stack) *)
(* and of the Sand module parser.                                          *)
(*                                                                         *)
(* Conventions.                                                            *)
(*  - Rust indices are 0-based; a TLA+ sequence is 1-based, so the byte at *)
(*    Rust index i of a vector v is v[i + 1].                              *)
(*  - A value of an N-bit type (u8 .. u64, i8 .. i64, f32, f64) is carried *)
(*    as the N/8 bytes of its little-endian image, the array that          *)
(*    T::to_le_bytes hands to write_at and that T::from_le_bytes receives  *)
(*    from read_at; 64-bit values do not fit TLC's integers.               *)
(*  - A call ends in one of three ways: it returns Ok, it returns          *)
(*    Action::Panic(msg) (the result is msg), or the Rust code panics      *)
(*    (slice index out of range, assert!, panic!): the result is "abort",  *)
(*    the call never returns and the object is not used any more.          *)
(***************************************************************************)
EXTENDS Integers, Sequences, FiniteSets, TLC

\* ------------------------------------------------------------------------
\* Bounds of the model
\* ------------------------------------------------------------------------
MaxPageSize == 3
MaxPages == 3
MaxAmount == 2
MaxFragments == 4
MaxStackSize == 8
MaxDigits == 2
InstrPages == 6
InstrStackSize == 16

VARIABLES
    page_size,      \* Memory.page_size
    max_pages,      \* Memory.max_pages
    pages,          \* Memory.pages: a sequence of pages, each a sequence of bytes
    stack_pointer,  \* Processor.stack_pointer
    stack_size,     \* Processor.stack_size
    overflow_flag,  \* Processor.overflow_flag
    crashed,        \* TRUE once a call has ended in a Rust panic
    last,           \* the most recent call: operation, arguments, result, returned value
    t_index,        \* the index the caller of this run accesses the memory at
    t_width,        \* size_of::<T>() of the type T the caller of this run uses
    stale,          \* the byte this run's allocator leaves in uninitialized pages
    src,            \* ParserInput: the source text, a sequence of characters
    parsed,         \* the parser that has been applied to src, and its ParserResult
    program,        \* Program.program: the bytes of the program
    program_counter,\* Processor.program_counter
    operands,       \* the values the caller of this run has still to push
    t_instr,        \* the instructions this run executes
    data_pointer,   \* Program.data_pointer
    code_pointer,   \* Program.code_pointer
    t_target,       \* size_of of the wider type of the casts of this run
    ignore,         \* ParserContext.ignore, the ParserIgnoreConfig of the parse
    warnings        \* ParserContext.warnings, the kinds of the warnings added

vars == <<page_size, max_pages, pages, stack_pointer, stack_size, overflow_flag,
          crashed, last, t_index, t_width, stale, src, parsed,
          program, program_counter, operands, t_instr,
          data_pointer, code_pointer, t_target, ignore, warnings>>

\* ------------------------------------------------------------------------
\* Helpers
\* ------------------------------------------------------------------------
OK == "Ok"
ABORT == "abort"
SEGFAULT == "Segmentation Fault"
OUT_OF_BOUNDS == "Memory out of bounds"
STACK_OVERFLOW == "Stack overflow"
STACK_UNDERFLOW == "Stack underflow"
DATA_SEGFAULT == "Data Segmentation Fault"

\* The widths, in bytes, of the typed accessors: u8/i8, u16/i16, u32/i32/f32, u64/i64/f64.
Widths == {1, 2, 4, 8}

\* The buffer [0; size_of::<T>()] of the typed readers.
Zeros(n) == [k \in 1..n |-> 0]

\* The value the typed writers write: every byte of it differs from every other
\* and from every byte the memory holds otherwise.
Value(n) == [k \in 1..n |-> 10 * k + 1]

\* The bytes the untyped write_at writes.
RawBytes == <<7, 8, 9>>

\* The byte a constructor's caller put at flat address a (all different).
InitByte(a) == 100 + a

\* What an uninitialized page may hold (Vec::set_len without initialization).
UninitFills == {0, 85}

FlatIndex(ps, p, k) == (p - 1) * ps + (k - 1)

\* The memory read as one flat byte array: the byte at flat address a.
FlatByte(pgs, ps, a) == pgs[(a \div ps) + 1][(a % ps) + 1]

\* ------------------------------------------------------------------------
\* Memory
\* ------------------------------------------------------------------------
size(pgs, ps) == Len(pgs) * ps

\* bytes[..(bytes.len() - index_in_page)].clone_from_slice(&page[index_in_page..bytes.len()])
read_at_single_page(pgs, page_index, index_in_page, bytes) ==
    IF page_index >= Len(pgs) THEN [status |-> ABORT, bytes |-> bytes]
    ELSE IF Len(bytes) < index_in_page THEN [status |-> ABORT, bytes |-> bytes]
    ELSE IF Len(bytes) > Len(pgs[page_index + 1]) THEN [status |-> ABORT, bytes |-> bytes]
    ELSE [status |-> OK,
          bytes |-> [k \in 1..Len(bytes) |->
                        IF k <= Len(bytes) - index_in_page
                        THEN pgs[page_index + 1][index_in_page + k]
                        ELSE bytes[k]]]

\* The loop of read_at; buf is the caller's buffer, filled chunk by chunk.
RECURSIVE read_at_loop(_, _, _, _, _, _)
read_at_loop(pgs, ps, page_index, index_in_page, index_in_bytes, buf) ==
    LET num_bytes == Len(buf) - index_in_bytes
        last_index_in_page == index_in_page + num_bytes
    IN  IF last_index_in_page > ps
        THEN LET last_index_in_bytes == index_in_bytes + (ps - index_in_page)
                 r == read_at_single_page(pgs, page_index, index_in_page,
                                          SubSeq(buf, index_in_bytes + 1, last_index_in_bytes))
                 filled == [k \in 1..Len(buf) |->
                              IF k > index_in_bytes /\ k <= last_index_in_bytes
                              THEN r.bytes[k - index_in_bytes] ELSE buf[k]]
             IN  IF r.status = ABORT THEN [status |-> ABORT, bytes |-> buf]
                 ELSE read_at_loop(pgs, ps, page_index + 1, 0, last_index_in_bytes, filled)
        ELSE LET r == read_at_single_page(pgs, page_index, index_in_page,
                                          SubSeq(buf, index_in_bytes + 1, Len(buf)))
                 filled == [k \in 1..Len(buf) |->
                              IF k > index_in_bytes
                              THEN r.bytes[k - index_in_bytes] ELSE buf[k]]
             IN  IF r.status = ABORT THEN [status |-> ABORT, bytes |-> buf]
                 ELSE [status |-> OK, bytes |-> filled]

read_at(pgs, ps, index, bytes) ==
    IF index + Len(bytes) > size(pgs, ps)
    THEN [status |-> SEGFAULT, bytes |-> bytes]
    ELSE read_at_loop(pgs, ps, index \div ps, index % ps, 0, bytes)

\* page[index_in_page..bytes.len()].clone_from_slice(&bytes[..(bytes.len() - index_in_page)])
write_at_single_page(pgs, page_index, index_in_page, bytes) ==
    IF page_index >= Len(pgs) THEN [status |-> ABORT, pages |-> pgs]
    ELSE IF Len(bytes) < index_in_page THEN [status |-> ABORT, pages |-> pgs]
    ELSE IF Len(bytes) > Len(pgs[page_index + 1]) THEN [status |-> ABORT, pages |-> pgs]
    ELSE [status |-> OK,
          pages |-> [pgs EXCEPT ![page_index + 1] =
                        [k \in 1..Len(pgs[page_index + 1]) |->
                            IF k > index_in_page /\ k <= Len(bytes)
                            THEN bytes[k - index_in_page]
                            ELSE pgs[page_index + 1][k]]]]

\* The loop of write_at.
RECURSIVE write_at_loop(_, _, _, _, _, _)
write_at_loop(pgs, ps, page_index, index_in_page, index_in_bytes, bytes) ==
    LET num_bytes == Len(bytes) - index_in_bytes
        last_index_in_page == index_in_page + num_bytes
    IN  IF last_index_in_page > ps
        THEN LET last_index_in_bytes == index_in_bytes + (ps - index_in_page)
                 r == write_at_single_page(pgs, page_index, index_in_page,
                                           SubSeq(bytes, index_in_bytes + 1, last_index_in_bytes))
             IN  IF r.status = ABORT THEN r
                 ELSE write_at_loop(r.pages, ps, page_index + 1, 0, last_index_in_bytes, bytes)
        ELSE write_at_single_page(pgs, page_index, index_in_page,
                                  SubSeq(bytes, index_in_bytes + 1, Len(bytes)))

\* write_at that checks only where the range starts.
write_at_index_only(pgs, ps, index, bytes) ==
    IF index > size(pgs, ps) THEN [status |-> SEGFAULT, pages |-> pgs]
    ELSE write_at_loop(pgs, ps, index \div ps, index % ps, 0, bytes)

write_at(pgs, ps, index, bytes) ==
    IF index + Len(bytes) > size(pgs, ps)
    THEN [status |-> SEGFAULT, pages |-> pgs]
    ELSE write_at_loop(pgs, ps, index \div ps, index % ps, 0, bytes)

\* add_page without the assertion on the length of the page.
add_page_any_length(pgs, ps, maxp, page) ==
    IF Len(pgs) + 1 > maxp THEN [status |-> OUT_OF_BOUNDS, pages |-> pgs]
    ELSE [status |-> OK, pages |-> Append(pgs, page)]

add_page(pgs, ps, maxp, page) ==
    IF Len(page) # ps THEN [status |-> ABORT, pages |-> pgs]
    ELSE IF Len(pgs) + 1 > maxp THEN [status |-> OUT_OF_BOUNDS, pages |-> pgs]
    ELSE [status |-> OK, pages |-> Append(pgs, page)]

\* add_empty_pages that refuses to fill the memory to max_pages.
add_empty_pages_off_by_one(pgs, ps, maxp, amount, fresh) ==
    IF Len(pgs) + amount >= maxp THEN [status |-> OUT_OF_BOUNDS, pages |-> pgs]
    ELSE [status |-> OK, pages |-> pgs \o fresh]

\* fresh is the sequence of the uninitialized pages resize_with creates.
add_empty_pages(pgs, ps, maxp, amount, fresh) ==
    LET new_pages == Len(pgs) + amount
    IN  IF new_pages > maxp THEN [status |-> OUT_OF_BOUNDS, pages |-> pgs]
        ELSE [status |-> OK, pages |-> pgs \o fresh]

\* The pages resize_with creates in a call of add_empty_pages(amount).
FreshPages(ps, amount, fill) == [p \in 1..amount |-> [k \in 1..ps |-> fill]]

\* ------------------------------------------------------------------------
\* Parser: the input and the results of the combinators
\* ------------------------------------------------------------------------
\* A source text is a sequence of one-character strings; every character of the
\* model is one byte, so the byte offset pos (0-based) is before s[pos + 1].
Chars(str) == [k \in 1..Len(str) |-> SubSeq(str, k, k)]

\* The pieces the source texts are built from.
Fragments ==
    << Chars("const a=1"), Chars(" "), Chars("\n"), Chars("#c"),
       Chars("+"), Chars("const"), Chars("."), Chars("=") >>

RECURSIVE Concat(_)
Concat(fs) == IF fs = <<>> THEN <<>> ELSE Fragments[Head(fs)] \o Concat(Tail(fs))

\* All source texts of at most MaxFragments pieces.
Sources ==
    { Concat(fs) : fs \in UNION { [1..n -> 1..Len(Fragments)] : n \in 0..MaxFragments } }

HEAD_CHARS == {"a", "c", "n", "o", "s", "t", "e", "E", "_"}
BODY_CHARS == {"0", "1", "2", "3", "4", "5", "6", "7", "8", "9"}
DECIMAL_DIGITS == {"0", "1", "2", "3", "4", "5", "6", "7", "8", "9"}
UCD_WHITESPACE_CHARS == {" ", "\n"}
UCD_LINE_BREAK_WHITESPACE_CHARS == {"\n"}
COMMENT_START_TOKEN == "#"
COMMENT_FORBIDDEN_TOKENS == {"[", "{", "(", "+", "-"}
CONST_DECLARATION_KEYWORD == Chars("const")
CONST_DECLARATION_ASSIGN_OPERATOR == "="
\* ParserIgnoreConfig::new() and every ParserIgnoreConfig
ParserIgnoreConfig_new == [number_leading_zeroes |-> FALSE, number_trailing_zeroes |-> FALSE]
ParserIgnoreConfig == [number_leading_zeroes : BOOLEAN, number_trailing_zeroes : BOOLEAN]

NUMBER_DECIMAL_SEPARATOR == "."
NUMBER_DECIMAL_EXPONENT_TOKEN == {"e", "E"}

\* ParserResult: Ok(node), Err(NotFound) with the input position put back to
\* where the parser started, Err(Error(cursor, error)).
NoHighlight == [cursor |-> 0, from |-> 0, to |-> 0]
ParseOk(pos, node) ==
    [res |-> "Ok", kind |-> "", pos |-> pos, node |-> node, hl |-> NoHighlight]
ParseNotFound(pos) ==
    [res |-> "NotFound", kind |-> "", pos |-> pos, node |-> <<>>, hl |-> NoHighlight]
ParseError(kind, pos, hl) ==
    [res |-> "Error", kind |-> kind, pos |-> pos, node |-> <<>>, hl |-> hl]

\* The offset where the run of characters of S that starts at pos ends.
ReadAnyOf0(s, pos, S) ==
    CHOOSE q \in pos..Len(s) :
        /\ \A k \in (pos + 1)..q : s[k] \in S
        /\ (q = Len(s) \/ s[q + 1] \notin S)

\* The offset where the run of characters not in S that starts at pos ends.
ReadNoneOf0(s, pos, S) ==
    CHOOSE q \in pos..Len(s) :
        /\ \A k \in (pos + 1)..q : s[k] \notin S
        /\ (q = Len(s) \/ s[q + 1] \in S)

\* Cursor::line of the cursor at offset pos: lines are counted from 1.
Line(s, pos) == 1 + Cardinality({k \in 1..pos : s[k] \in UCD_LINE_BREAK_WHITESPACE_CHARS})

Span(start, end) == [start |-> start, end |-> end]

\* ------------------------------------------------------------------------
\* Parser: the nodes
\* ------------------------------------------------------------------------
\* A Comment::parse without the verify on the first character of the content.
CommentParse_unverified(s, pos) ==
    IF pos < Len(s) /\ s[pos + 1] = COMMENT_START_TOKEN
    THEN ParseOk(ReadNoneOf0(s, pos + 1, UCD_LINE_BREAK_WHITESPACE_CHARS),
                 Span(pos, ReadNoneOf0(s, pos + 1, UCD_LINE_BREAK_WHITESPACE_CHARS)))
    ELSE ParseNotFound(pos)

\* Comment::message: the content of the span after the start token.
message(s, span) == SubSeq(s, span.start + 1 + Len(<<COMMENT_START_TOKEN>>), span.end)

\* Comment::parse
CommentParse(s, pos) ==
    IF pos < Len(s) /\ s[pos + 1] = COMMENT_START_TOKEN
    THEN LET q == ReadNoneOf0(s, pos + 1, UCD_LINE_BREAK_WHITESPACE_CHARS)
         IN  IF q > pos + 1 /\ s[pos + 2] \in COMMENT_FORBIDDEN_TOKENS
             THEN ParseNotFound(pos)
             ELSE ParseOk(q, Span(pos, q))
    ELSE ParseNotFound(pos)

\* repeat_and_count(1.., alternative_ignore((ucd_whitespace1, Comment::parse))):
\* the offset where the repetition that starts at pos stops.
RECURSIVE WhitespaceEnd(_, _)
WhitespaceEnd(s, pos) ==
    IF pos < Len(s) /\ s[pos + 1] \in UCD_WHITESPACE_CHARS
    THEN WhitespaceEnd(s, ReadAnyOf0(s, pos, UCD_WHITESPACE_CHARS))
    ELSE LET c == CommentParse(s, pos)
         IN  IF c.res = "Ok" THEN WhitespaceEnd(s, c.pos) ELSE pos

\* Whitespace::parse
WhitespaceParse(s, pos) ==
    LET q == WhitespaceEnd(s, pos)
    IN  IF q = pos THEN ParseNotFound(pos) ELSE ParseOk(q, Span(pos, q))

\* The comparison of a whitespace's start and end line that says it is one line.
is_single_line_any(s, ws_span) == FALSE

is_single_line(s, ws_span) == Line(s, ws_span.start) = Line(s, ws_span.end)

\* optional(Whitespace::parse): where the input is afterwards.
SkipWhitespace(s, pos) == WhitespaceParse(s, pos).pos

\* Identifier::parse
IdentifierParse(s, pos) ==
    IF pos < Len(s) /\ s[pos + 1] \in HEAD_CHARS
    THEN LET q == ReadAnyOf0(s, pos + 1, HEAD_CHARS \cup BODY_CHARS)
         IN  ParseOk(q, Span(pos, q))
    ELSE ParseNotFound(pos)

\* A read_keyword that reads the keyword as a text, whatever follows it.
read_keyword_prefix(s, pos, keyword) ==
    IF pos + Len(keyword) <= Len(s) /\ SubSeq(s, pos + 1, pos + Len(keyword)) = keyword
    THEN ParseOk(pos + Len(keyword), <<>>)
    ELSE ParseNotFound(pos)

\* Identifier::read_keyword(keyword)
read_keyword(s, pos, keyword) ==
    LET id == IdentifierParse(s, pos)
    IN  IF id.res # "Ok" THEN id
        ELSE IF SubSeq(s, pos + 1, id.pos) = keyword THEN ParseOk(id.pos, <<>>)
        ELSE ParseNotFound(pos)

\* trim_start_matches('0') and trim_end_matches('0')
RECURSIVE TrimStartZeros(_)
TrimStartZeros(d) ==
    IF d # <<>> /\ Head(d) = "0" THEN TrimStartZeros(Tail(d)) ELSE d

RECURSIVE TrimEndZeros(_)
TrimEndZeros(d) ==
    IF d # <<>> /\ d[Len(d)] = "0" THEN TrimEndZeros(SubSeq(d, 1, Len(d) - 1)) ELSE d

DigitValue(c) == CHOOSE v \in 0..9 : Chars("0123456789")[v + 1] = c

\* a >= b for two digit strings without leading zeros.
DigitsGreaterOrEqual(a, b) ==
    \/ Len(a) > Len(b)
    \/ /\ Len(a) = Len(b)
       /\ \A k \in 1..Len(a) :
             \/ DigitValue(a[k]) >= DigitValue(b[k])
             \/ \E j \in 1..(k - 1) : DigitValue(a[j]) > DigitValue(b[j])

\* a > b for two digit strings without leading zeros.
DigitsGreater(a, b) ==
    \/ Len(a) > Len(b)
    \/ /\ Len(a) = Len(b)
       /\ \E k \in 1..Len(a) :
             /\ DigitValue(a[k]) > DigitValue(b[k])
             /\ \A j \in 1..(k - 1) : a[j] = b[j]

U32_MAX == Chars("4294967295")
I32_MAX == Chars("2147483647")
I32_MIN_MAGNITUDE == Chars("2147483648")

\* i32::from_str_radix(exponent, 10).is_err() for [+-]? digits+
ExponentOutOfRange(exponent) ==
    LET negative == Head(exponent) = "-"
        digits == IF Head(exponent) \in {"+", "-"} THEN Tail(exponent) ELSE exponent
    IN  DigitsGreater(TrimStartZeros(digits), IF negative THEN I32_MIN_MAGNITUDE ELSE I32_MAX)

\* BigInt::from_str_radix(digits, 10); the empty string stands for BigInt::zero().
RECURSIVE from_str_radix(_)
from_str_radix(digits) ==
    IF digits = <<>> THEN 0
    ELSE 10 * from_str_radix(SubSeq(digits, 1, Len(digits) - 1)) + DigitValue(digits[Len(digits)])

\* The loop of i32::from_str_radix for a negative number: result * 10 - digit.
RECURSIVE i32_negative(_)
i32_negative(digits) ==
    IF digits = <<>> THEN 0
    ELSE 10 * i32_negative(SubSeq(digits, 1, Len(digits) - 1)) - DigitValue(digits[Len(digits)])

\* i32::from_str_radix(exponent, 10) for [+-]? digits+ within range.
i32_from_str_radix(exponent) ==
    IF Head(exponent) = "-" THEN i32_negative(TrimStartZeros(Tail(exponent)))
    ELSE IF Head(exponent) = "+" THEN from_str_radix(TrimStartZeros(Tail(exponent)))
    ELSE from_str_radix(TrimStartZeros(exponent))

RECURSIVE Pow10(_)
Pow10(n) == IF n = 0 THEN 1 ELSE 10 * Pow10(n - 1)

\* A BigRational whose denominator is a power of ten, kept as the one pair
\* (mantissa, exponent) with value mantissa * 10^exponent and mantissa not a
\* multiple of ten (zero is ("0", 0)): equal rationals have equal pairs.  The
\* mantissa is a BigInt, kept as its decimal digits so that it has no width.
BigRational(mantissa, exponent) ==
    LET digits == TrimStartZeros(mantissa)
        reduced == TrimEndZeros(digits)
    IN  IF digits = <<>> THEN [mantissa |-> <<"0">>, exponent |-> 0]
        ELSE [mantissa |-> reduced, exponent |-> exponent + (Len(digits) - Len(reduced))]

\* The value with the zeros of the decimal part trimmed at its start as well.
number_value_trim_both(integer_part, decimal_part, exponent) ==
    LET value == TrimStartZeros(integer_part)
        decimal == TrimStartZeros(TrimEndZeros(decimal_part))
    IN  BigRational(value \o decimal,
                    (IF exponent # <<>> THEN i32_from_str_radix(exponent) ELSE 0)
                        - Len(decimal))

\* The value Number::convert_to_number computes when it raises no error.
\* numer = value * denom + decimal_part_value over denom = 10^len is, in decimal
\* digits, the digits of value followed by the len digits of the decimal part; the
\* product with 10^exponent adds the exponent.
number_value(integer_part, decimal_part, exponent) ==
    LET value == TrimStartZeros(integer_part)
        decimal == TrimEndZeros(decimal_part)
        numer == value \o decimal
    IN  BigRational(numer,
                    (IF exponent # <<>> THEN i32_from_str_radix(exponent) ELSE 0)
                        - Len(decimal))

\* trim_start_matches(['+', '-'])
RECURSIVE TrimStartSigns(_)
TrimStartSigns(d) ==
    IF d # <<>> /\ Head(d) \in {"+", "-"} THEN TrimStartSigns(Tail(d)) ELSE d

\* utils::add_warning: the ParserWarning it pushes, as its kind and its title.
ParserWarning(kind, title) == [kind |-> kind, title |-> title]

\* Number::warning_leading_zeroes_integer_part: the warnings it adds.
warning_leading_zeroes_integer_part(config, integer_part) ==
    IF config.number_leading_zeroes \/ integer_part = <<"0">> THEN <<>>
    ELSE IF Len(integer_part) # Len(TrimStartZeros(integer_part))
    THEN <<ParserWarning("NumberWithLeadingZeroes",
                         "Leading zeroes in the integer part of a number are unnecessary")>>
    ELSE <<>>

\* A warning_leading_zeroes_exponent with no warning for an exponent of zeros only.
warning_leading_zeroes_exponent_nonzero(config, exponent) ==
    LET exponent_trim_sign == TrimStartSigns(exponent)
        exponent_trim == TrimStartZeros(exponent_trim_sign)
    IN  IF config.number_leading_zeroes \/ exponent = <<>> \/ exponent_trim = <<>> THEN <<>>
        ELSE IF Len(exponent_trim_sign) # Len(exponent_trim)
        THEN <<ParserWarning("NumberWithLeadingZeroes",
                             "Leading zeroes in the exponent of a number are unnecessary")>>
        ELSE <<>>

\* Number::warning_leading_zeroes_exponent: the warnings it adds.
warning_leading_zeroes_exponent(config, exponent) ==
    LET exponent_trim_sign == TrimStartSigns(exponent)
        exponent_trim == TrimStartZeros(exponent_trim_sign)
    IN  IF config.number_leading_zeroes THEN <<>>
        ELSE IF exponent = <<>> THEN <<>>
        ELSE IF exponent_trim = <<>>
        THEN <<ParserWarning("NumberWithLeadingZeroes",
                             "The exponent of the number is unnecessary")>>
        ELSE IF Len(exponent_trim_sign) # Len(exponent_trim)
        THEN <<ParserWarning("NumberWithLeadingZeroes",
                             "Leading zeroes in the exponent of a number are unnecessary")>>
        ELSE <<>>

\* Number::warning_trailing_zeroes: the warnings it adds.
warning_trailing_zeroes(config, decimal_part) ==
    LET decimal_part_trim == TrimEndZeros(decimal_part)
    IN  IF config.number_trailing_zeroes THEN <<>>
        ELSE IF decimal_part = <<>> THEN <<>>
        ELSE IF decimal_part_trim = <<>>
        THEN <<ParserWarning("NumberWithTrailingZeroes",
                             "The decimal part of the number is unnecessary")>>
        ELSE IF Len(decimal_part) # Len(decimal_part_trim)
        THEN <<ParserWarning("NumberWithTrailingZeroes",
                             "Trailing zeroes in the decimal part of a number are unnecessary")>>
        ELSE <<>>

\* The warning checks of convert_to_number with the one on the decimal part first.
number_warnings_trailing_first(config, integer_part, decimal_part, exponent) ==
    warning_trailing_zeroes(config, decimal_part)
        \o warning_leading_zeroes_integer_part(config, integer_part)
        \o warning_leading_zeroes_exponent(config, exponent)

\* The warnings Number::convert_to_number adds when it raises no error.
number_warnings(config, integer_part, decimal_part, exponent) ==
    warning_leading_zeroes_integer_part(config, integer_part)
        \o warning_leading_zeroes_exponent(config, exponent)
        \o warning_trailing_zeroes(config, decimal_part)

\* Number::convert_to_number: its outcome; decimal_part and exponent are <<>> for None.
convert_to_number(start, pos, integer_part, decimal_part, exponent) ==
    IF DigitsGreater(TrimStartZeros(TrimEndZeros(decimal_part)), U32_MAX)
    THEN ParseError("NumberTooBig", pos, NoHighlight)
    ELSE IF exponent # <<>> /\ ExponentOutOfRange(exponent)
    THEN ParseError("NumberTooBigExponent", pos, NoHighlight)
    ELSE ParseOk(pos, [start |-> start, end |-> pos,
                       value |-> number_value(integer_part, decimal_part, exponent)])

\* A parse_decimal whose optional parts fail with NotFound where their digits are
\* missing: the number is then the part of the literal before them.
NumberParseDecimal_prefix(s, pos) ==
    LET d1 == ReadAnyOf0(s, pos, DECIMAL_DIGITS)
        has_dot == /\ d1 < Len(s) /\ s[d1 + 1] = NUMBER_DECIMAL_SEPARATOR
                   /\ ReadAnyOf0(s, d1 + 1, DECIMAL_DIGITS) > d1 + 1
        d2 == IF has_dot THEN ReadAnyOf0(s, d1 + 1, DECIMAL_DIGITS) ELSE d1
        e1 == d2 + 1
        e2 == IF e1 < Len(s) /\ s[e1 + 1] \in {"+", "-"} THEN e1 + 1 ELSE e1
        has_exp == /\ d2 < Len(s) /\ s[d2 + 1] \in NUMBER_DECIMAL_EXPONENT_TOKEN
                   /\ ReadAnyOf0(s, e2, DECIMAL_DIGITS) > e2
        d3 == IF has_exp THEN ReadAnyOf0(s, e2, DECIMAL_DIGITS) ELSE d2
    IN  IF d1 = pos THEN ParseNotFound(pos)
        ELSE convert_to_number(pos, d3, SubSeq(s, pos + 1, d1),
                               IF has_dot THEN SubSeq(s, d1 + 2, d2) ELSE <<>>,
                               IF has_exp THEN SubSeq(s, e1 + 1, d3) ELSE <<>>)

\* Number::parse_decimal
NumberParseDecimal(s, pos) ==
    LET d1 == ReadAnyOf0(s, pos, DECIMAL_DIGITS)
        has_dot == d1 < Len(s) /\ s[d1 + 1] = NUMBER_DECIMAL_SEPARATOR
        d2 == IF has_dot THEN ReadAnyOf0(s, d1 + 1, DECIMAL_DIGITS) ELSE d1
        has_exp == d2 < Len(s) /\ s[d2 + 1] \in NUMBER_DECIMAL_EXPONENT_TOKEN
        e1 == d2 + 1
        e2 == IF e1 < Len(s) /\ s[e1 + 1] \in {"+", "-"} THEN e1 + 1 ELSE e1
        d3 == IF has_exp THEN ReadAnyOf0(s, e2, DECIMAL_DIGITS) ELSE d2
    IN  IF d1 = pos THEN ParseNotFound(pos)
        ELSE IF has_dot /\ d2 = d1 + 1
        THEN ParseError("NumberWithoutDigitsAfterDecimalSeparator", d2, NoHighlight)
        ELSE IF has_exp /\ d3 = e2
        THEN ParseError("NumberWithoutDigitsAfterExponentToken", e2, NoHighlight)
        ELSE convert_to_number(pos, d3, SubSeq(s, pos + 1, d1),
                               IF has_dot THEN SubSeq(s, d1 + 2, d2) ELSE <<>>,
                               IF has_exp THEN SubSeq(s, e1 + 1, d3) ELSE <<>>)

\* The warnings Number::parse_decimal adds to the context.
NumberParseDecimalWarnings(config, s, pos) ==
    LET d1 == ReadAnyOf0(s, pos, DECIMAL_DIGITS)
        has_dot == d1 < Len(s) /\ s[d1 + 1] = NUMBER_DECIMAL_SEPARATOR
        d2 == IF has_dot THEN ReadAnyOf0(s, d1 + 1, DECIMAL_DIGITS) ELSE d1
        has_exp == d2 < Len(s) /\ s[d2 + 1] \in NUMBER_DECIMAL_EXPONENT_TOKEN
        e1 == d2 + 1
        d3 == NumberParseDecimal(s, pos).pos
    IN  IF NumberParseDecimal(s, pos).res # "Ok" THEN <<>>
        ELSE number_warnings(config, SubSeq(s, pos + 1, d1),
                             IF has_dot THEN SubSeq(s, d1 + 2, d2) ELSE <<>>,
                             IF has_exp THEN SubSeq(s, e1 + 1, d3) ELSE <<>>)

\* A parse_decimal that gives the number up when it adds a warning.
NumberParseDecimalIn_no_warnings(config, s, pos) ==
    IF NumberParseDecimalWarnings(config, s, pos) # <<>> THEN ParseNotFound(pos)
    ELSE NumberParseDecimal(s, pos)

\* Number::parse_decimal over an input whose context has the ParserIgnoreConfig
\* config: what it returns, which no part of the code makes depend on config.
NumberParseDecimalIn(config, s, pos) == NumberParseDecimal(s, pos)

\* Literal::parse: alternative((Number::parse_decimal,))
LiteralParse(s, pos) == NumberParseDecimal(s, pos)

\* Expression::parse: alternative((Literal::parse,))
ExpressionParse(s, pos) == LiteralParse(s, pos)

\* ConstDeclaration::parse whose outer ensure replaces every failure after the identifier.
ConstDeclarationParse_outer_error(s, pos) ==
    LET kw == read_keyword(s, pos, CONST_DECLARATION_KEYWORD)
        p1 == SkipWhitespace(s, kw.pos)
        id == IdentifierParse(s, p1)
        p3 == SkipWhitespace(s, id.pos)
        has_assign == p3 < Len(s) /\ s[p3 + 1] = CONST_DECLARATION_ASSIGN_OPERATOR
        expression == ExpressionParse(s, SkipWhitespace(s, p3 + 1))
    IN  IF kw.res # "Ok" THEN ParseNotFound(pos)
        ELSE IF id.res # "Ok"
        THEN ParseError("ConstDeclarationWithoutIdentifier", p1, NoHighlight)
        ELSE IF ~has_assign \/ expression.res # "Ok"
        THEN ParseError("ConstDeclarationWithoutAssignExpression", id.pos, NoHighlight)
        ELSE ParseOk(expression.pos,
                     [start |-> pos, end |-> expression.pos,
                      identifier |-> id.node, expression |-> expression.node])

\* ConstDeclaration::parse
ConstDeclarationParse(s, pos) ==
    LET kw == read_keyword(s, pos, CONST_DECLARATION_KEYWORD)
        p1 == SkipWhitespace(s, kw.pos)
        id == IdentifierParse(s, p1)
        post_identifier == id.pos
        p3 == SkipWhitespace(s, post_identifier)
        has_assign == p3 < Len(s) /\ s[p3 + 1] = CONST_DECLARATION_ASSIGN_OPERATOR
        post_assign_operator == SkipWhitespace(s, p3 + 1)
        expression == ExpressionParse(s, post_assign_operator)
    IN  IF kw.res # "Ok" THEN ParseNotFound(pos)
        ELSE IF id.res # "Ok"
        THEN ParseError("ConstDeclarationWithoutIdentifier", p1, NoHighlight)
        ELSE IF ~has_assign
        THEN ParseError("ConstDeclarationWithoutAssignExpression", post_identifier, NoHighlight)
        ELSE IF expression.res = "NotFound"
        THEN ParseError("ConstDeclarationWithoutExpression", post_assign_operator, NoHighlight)
        ELSE IF expression.res = "Error" THEN expression
        ELSE ParseOk(expression.pos,
                     [start |-> pos, end |-> expression.pos,
                      identifier |-> id.node, expression |-> expression.node])

\* Statement::parse: alternative((ConstDeclaration::parse,))
StatementParse(s, pos) == ConstDeclarationParse(s, pos)

\* Module::error_two_statements_inline
error_two_statements_inline(pos, statement) ==
    ParseError("ModuleTwoStatementsInline", pos,
               [cursor |-> statement.start, from |-> statement.start, to |-> statement.end])

\* Module::error_unrecognized_eof
error_unrecognized_eof(s, pos) ==
    ParseError("ModuleUnrecognizedEOF", pos, [cursor |-> pos, from |-> pos, to |-> Len(s)])

\* The module node, and what the repeat had collected when an error ended the parse.
WithStatements(r, statements) ==
    [r EXCEPT !.node = [start |-> 0, end |-> r.pos, statements |-> statements]]

\* The end of a module that lets the rest of the input be.
ModuleEnd_no_ensure(s, pos, statements) ==
    WithStatements(ParseOk(SkipWhitespace(s, pos), <<>>), statements)

\* optional(Whitespace::parse), ensure(end, error_unrecognized_eof) and the map_result
ModuleEnd(s, pos, statements) ==
    LET p == SkipWhitespace(s, pos)
    IN  IF p = Len(s) THEN WithStatements(ParseOk(p, <<>>), statements)
        ELSE WithStatements(error_unrecognized_eof(s, p), statements)

\* A repeat that ends on an Error of its parser as it does on NotFound.
RECURSIVE ModuleRepeat_swallow(_, _, _, _)
ModuleRepeat_swallow(s, pos, is_first, statements) ==
    LET whitespace == WhitespaceParse(s, pos)
        statement == StatementParse(s, whitespace.pos)
    IN  IF statement.res # "Ok" THEN ModuleEnd(s, pos, statements)
        ELSE IF is_first \/ (whitespace.res = "Ok" /\ ~is_single_line(s, whitespace.node))
        THEN ModuleRepeat_swallow(s, statement.pos, FALSE, Append(statements, statement.node))
        ELSE WithStatements(error_two_statements_inline(statement.pos, statement.node),
                            statements)

\* repeat(0.., and_then(tuple((optional(Whitespace::parse), Statement::parse)), ..))
RECURSIVE ModuleRepeat(_, _, _, _)
ModuleRepeat(s, pos, is_first, statements) ==
    LET whitespace == WhitespaceParse(s, pos)
        statement == StatementParse(s, whitespace.pos)
    IN  IF statement.res = "NotFound" THEN ModuleEnd(s, pos, statements)
        ELSE IF statement.res = "Error" THEN WithStatements(statement, statements)
        ELSE IF is_first \/ (whitespace.res = "Ok" /\ ~is_single_line(s, whitespace.node))
        THEN ModuleRepeat(s, statement.pos, FALSE, Append(statements, statement.node))
        ELSE WithStatements(error_two_statements_inline(statement.pos, statement.node),
                            statements)

\* A Module::parse whose repeat needs one statement at least.
ModuleParse_one_or_more(s) ==
    IF StatementParse(s, WhitespaceParse(s, 0).pos).res = "NotFound"
    THEN WithStatements(ParseNotFound(0), <<>>)
    ELSE ModuleRepeat(s, 0, TRUE, <<>>)

\* Module::parse
ModuleParse(s) == ModuleRepeat(s, 0, TRUE, <<>>)

\* The warnings Statement::parse adds to the context: those of its expression.
StatementWarnings(config, s, pos) ==
    IF StatementParse(s, pos).res # "Ok" THEN <<>>
    ELSE NumberParseDecimalWarnings(config, s, StatementParse(s, pos).node.expression.start)

\* The warnings the statements parsed by the repeat of Module::parse add.
RECURSIVE ModuleRepeatWarnings(_, _, _, _)
ModuleRepeatWarnings(config, s, pos, is_first) ==
    LET whitespace == WhitespaceParse(s, pos)
        statement == StatementParse(s, whitespace.pos)
    IN  IF statement.res # "Ok" THEN <<>>
        ELSE StatementWarnings(config, s, whitespace.pos)
                 \o (IF is_first \/ (whitespace.res = "Ok" /\ ~is_single_line(s, whitespace.node))
                     THEN ModuleRepeatWarnings(config, s, statement.pos, FALSE)
                     ELSE <<>>)

\* The warnings Module::parse adds to the context.
ModuleWarnings(config, s) == ModuleRepeatWarnings(config, s, 0, TRUE)

\* No parse has been made yet.
NoParse == [op |-> "none", result |-> ParseNotFound(0)]

\* ------------------------------------------------------------------------
\* The record of a call
\* ------------------------------------------------------------------------
NoCall ==
    [op |-> "none", width |-> 0, index |-> 0, arg |-> <<>>, result |-> OK, ret |-> <<>>]

Call(op, width, index, arg, result, ret) ==
    [op |-> op, width |-> width, index |-> index, arg |-> arg, result |-> result, ret |-> ret]

\* Every action records the call and stops the object on a Rust panic.
Record(c) ==
    /\ last' = c
    /\ crashed' = (c.result = ABORT)

\* ------------------------------------------------------------------------
\* Memory used on its own
\* ------------------------------------------------------------------------
\* Memory::new(page_size, max_pages, pages) and Memory::new_empty(page_size, max_pages)
MemoryInit ==
    /\ page_size \in 1..MaxPageSize
    /\ max_pages \in 0..MaxPages
    /\ \E n \in 0..max_pages :
          pages = [p \in 1..n |-> [k \in 1..page_size |-> InitByte(FlatIndex(page_size, p, k))]]
    /\ stack_pointer = 0
    /\ stack_size = 0
    /\ overflow_flag = FALSE
    /\ crashed = FALSE
    /\ last = NoCall
    /\ t_index \in 0..(max_pages * page_size)
    /\ t_width \in Widths
    /\ stale \in UninitFills
    /\ src = <<>>
    /\ parsed = NoParse
    /\ program = <<>>
    /\ program_counter = 0
    /\ operands = <<>>
    /\ t_instr = {}
    /\ data_pointer = 0
    /\ code_pointer = 0
    /\ t_target = 0
    /\ ignore = ParserIgnoreConfig_new
    /\ warnings = <<>>

MemGuard == ~crashed

Fixed == UNCHANGED <<page_size, max_pages, t_index, t_width, stale, src, parsed,
                     program, program_counter, operands, t_instr,
          data_pointer, code_pointer, t_target, ignore, warnings>>

ProcUnchanged == UNCHANGED <<stack_pointer, stack_size, overflow_flag>>

MemReadAt ==
    /\ MemGuard
    /\ LET buf == Zeros(Len(RawBytes))
           r == read_at(pages, page_size, t_index, buf)
       IN  Record(Call("read_at", Len(buf), t_index, buf, r.status, r.bytes))
    /\ UNCHANGED pages
    /\ Fixed /\ ProcUnchanged

MemWriteAt ==
    /\ MemGuard
    /\ LET r == write_at(pages, page_size, t_index, RawBytes)
       IN  /\ pages' = r.pages
           /\ Record(Call("write_at", Len(RawBytes), t_index, RawBytes, r.status, <<>>))
    /\ Fixed /\ ProcUnchanged

\* read_u8_at .. read_f64_at
MemReadTAt ==
    /\ MemGuard
    /\ LET r == read_at(pages, page_size, t_index, Zeros(t_width))
       IN  Record(Call("read_T_at", t_width, t_index, <<>>, r.status, r.bytes))
    /\ UNCHANGED pages
    /\ Fixed /\ ProcUnchanged

\* write_u8_at .. write_f64_at
MemWriteTAt ==
    /\ MemGuard
    /\ LET r == write_at(pages, page_size, t_index, Value(t_width))
       IN  /\ pages' = r.pages
           /\ Record(Call("write_T_at", t_width, t_index, Value(t_width), r.status, <<>>))
    /\ Fixed /\ ProcUnchanged

MemAddPage ==
    /\ MemGuard
    /\ \E len \in {page_size, page_size + 1} :
          LET page == [k \in 1..len |-> 90 + k]
              r == add_page(pages, page_size, max_pages, page)
          IN  /\ pages' = r.pages
              /\ Record(Call("add_page", 1, 0, page, r.status, <<>>))
    /\ Fixed /\ ProcUnchanged

MemAddEmptyPage ==
    /\ MemGuard
    /\ LET r == add_empty_pages(pages, page_size, max_pages, 1, FreshPages(page_size, 1, stale))
       IN  /\ pages' = r.pages
           /\ Record(Call("add_empty_page", 1, 0, <<>>, r.status, <<>>))
    /\ Fixed /\ ProcUnchanged

MemAddEmptyPages ==
    /\ MemGuard
    /\ \E amount \in 0..MaxAmount :
          LET r == add_empty_pages(pages, page_size, max_pages, amount,
                                   FreshPages(page_size, amount, stale))
          IN  /\ pages' = r.pages
              /\ Record(Call("add_empty_pages", amount, 0, <<>>, r.status, <<>>))
    /\ Fixed /\ ProcUnchanged

MemoryNext ==
    \/ MemReadAt
    \/ MemWriteAt
    \/ MemReadTAt
    \/ MemWriteTAt
    \/ MemAddPage
    \/ MemAddEmptyPage
    \/ MemAddEmptyPages

SpecMemory == MemoryInit /\ [][MemoryNext]_vars


\* ------------------------------------------------------------------------
\* Processor
\* ------------------------------------------------------------------------
\* T::to_le_bytes of a number, for the n-byte type T.
RECURSIVE to_le_bytes(_, _)
to_le_bytes(value, n) ==
    IF n = 0 THEN <<>> ELSE <<value % 256>> \o to_le_bytes(value \div 256, n - 1)

\* T::from_le_bytes as a number.
RECURSIVE from_le_bytes(_)
from_le_bytes(bytes) ==
    IF bytes = <<>> THEN 0 ELSE Head(bytes) + 256 * from_le_bytes(Tail(bytes))

\* peek_u8 .. peek_f64, n = size_of::<T>()
peek(pgs, ps, sp, n) ==
    IF n > sp THEN [status |-> STACK_UNDERFLOW, value |-> Zeros(n)]
    ELSE LET r == read_at(pgs, ps, sp - n, Zeros(n))
         IN  [status |-> r.status, value |-> r.bytes]

\* pop_u8 .. pop_f64
pop(pgs, ps, sp, n) ==
    LET r == peek(pgs, ps, sp, n)
    IN  IF r.status = OK
        THEN [status |-> OK, value |-> r.value, sp |-> sp - n]
        ELSE [status |-> r.status, value |-> r.value, sp |-> sp]

\* push that compares only the stack pointer with the stack size.
push_pointer_only(pgs, ps, sp, ssize, value) ==
    IF sp > ssize
    THEN [status |-> STACK_OVERFLOW, pages |-> pgs, sp |-> sp]
    ELSE LET r == write_at(pgs, ps, sp, value)
         IN  IF r.status = OK
             THEN [status |-> OK, pages |-> r.pages, sp |-> sp + Len(value)]
             ELSE [status |-> r.status, pages |-> r.pages, sp |-> sp]

\* push that writes the value before it checks the stack size.
push_write_first(pgs, ps, sp, ssize, value) ==
    LET r == write_at(pgs, ps, sp, value)
    IN  IF sp + Len(value) > ssize
        THEN [status |-> STACK_OVERFLOW, pages |-> r.pages, sp |-> sp]
        ELSE IF r.status = OK
             THEN [status |-> OK, pages |-> r.pages, sp |-> sp + Len(value)]
             ELSE [status |-> r.status, pages |-> r.pages, sp |-> sp]

\* push_u8 .. push_f64
push(pgs, ps, sp, ssize, value) ==
    IF sp + Len(value) > ssize
    THEN [status |-> STACK_OVERFLOW, pages |-> pgs, sp |-> sp]
    ELSE LET r == write_at(pgs, ps, sp, value)
         IN  IF r.status = OK
             THEN [status |-> OK, pages |-> r.pages, sp |-> sp + Len(value)]
             ELSE [status |-> r.status, pages |-> r.pages, sp |-> sp]

\* Processor::stack_size(): the getter returns self.stack_pointer.
Processor_stack_size(sp, ssize) == sp

set_stack_pointer(sp, ssize, new_sp) ==
    IF new_sp >= ssize THEN [status |-> ABORT, sp |-> sp]
    ELSE [status |-> OK, sp |-> new_sp]

\* instructions::memory::memory_size
memory_size(pgs, ps, sp, ssize) ==
    push(pgs, ps, sp, ssize, to_le_bytes(size(pgs, ps), 4))

\* memory_grow that returns the error of add_empty_pages.
memory_grow_propagate(pgs, ps, maxp, sp, ssize, flag, fill) ==
    LET p == pop(pgs, ps, sp, 4)
        number_of_bytes == from_le_bytes(p.value)
        amount == (number_of_bytes \div ps) + (IF number_of_bytes % ps # 0 THEN 1 ELSE 0)
        a == add_empty_pages(pgs, ps, maxp, amount, FreshPages(ps, amount, fill))
        q == push(a.pages, ps, p.sp, ssize, to_le_bytes(size(pgs, ps), 4))
    IN  IF p.status # OK
        THEN [status |-> p.status, pages |-> pgs, sp |-> p.sp, flag |-> flag]
        ELSE IF a.status # OK
        THEN [status |-> a.status, pages |-> pgs, sp |-> p.sp, flag |-> TRUE]
        ELSE [status |-> q.status, pages |-> q.pages, sp |-> q.sp, flag |-> FALSE]

\* memory_grow, given what add_empty_pages returned: is_error goes to the overflow
\* flag and the size the memory had goes on the stack.
memory_grow_added(ps, ssize, memory_size_, p, a) ==
    LET is_error == a.status # OK
        q == push(a.pages, ps, p.sp, ssize, memory_size_)
    IN  [status |-> q.status, pages |-> q.pages, sp |-> q.sp, flag |-> is_error]

\* memory_grow that sets the overflow flag on a failure and never clears it.
memory_grow_popped_sticky(pgs, ps, maxp, ssize, flag, fill, p) ==
    LET number_of_bytes == from_le_bytes(p.value)
        amount == (number_of_bytes \div ps) + (IF number_of_bytes % ps # 0 THEN 1 ELSE 0)
        a == add_empty_pages(pgs, ps, maxp, amount, FreshPages(ps, amount, fill))
        q == push(a.pages, ps, p.sp, ssize, to_le_bytes(size(pgs, ps), 4))
    IN  IF p.status # OK
        THEN [status |-> p.status, pages |-> pgs, sp |-> p.sp, flag |-> flag]
        ELSE [status |-> q.status, pages |-> q.pages, sp |-> q.sp,
              flag |-> flag \/ a.status # OK]

\* memory_grow, given what its pop of number_of_bytes returned.
memory_grow_popped(pgs, ps, maxp, ssize, flag, fill, p) ==
    LET number_of_bytes == from_le_bytes(p.value)
        memory_size_ == to_le_bytes(size(pgs, ps), 4)
        amount == (number_of_bytes \div ps) + (IF number_of_bytes % ps # 0 THEN 1 ELSE 0)
    IN  IF p.status # OK
        THEN [status |-> p.status, pages |-> pgs, sp |-> p.sp, flag |-> flag]
        ELSE memory_grow_added(ps, ssize, memory_size_, p,
                 add_empty_pages(pgs, ps, maxp, amount, FreshPages(ps, amount, fill)))

\* instructions::memory::memory_grow; fill is what the new pages happen to hold.
memory_grow(pgs, ps, maxp, sp, ssize, flag, fill) ==
    memory_grow_popped(pgs, ps, maxp, ssize, flag, fill, pop(pgs, ps, sp, 4))

\* The values a behaviour pushes: one whose bytes all differ and, for u32, also a
\* byte count that memory_grow can grant.
PushValues(n) == IF n = 4 THEN {Value(4), to_le_bytes(1, 4)} ELSE {Value(n)}

\* The stack pointers a behaviour asks set_stack_pointer for: near either end of
\* the stack, the last one being the refused value stack_size itself.
StackTargets(ssize) == {x \in 0..ssize : x <= 1 \/ x >= ssize - 1}

\* Processor::new(memory, program, stack_size).  A behaviour works with operands
\* of one width, t_width.
Init ==
    /\ page_size \in 1..MaxPageSize
    /\ max_pages \in 0..MaxPages
    /\ \E n \in 0..max_pages :
          pages = [p \in 1..n |-> [k \in 1..page_size |-> InitByte(FlatIndex(page_size, p, k))]]
    /\ stack_size \in {x \in 0..size(pages, page_size) : x <= MaxStackSize}
    /\ stack_pointer = 0
    /\ overflow_flag = FALSE
    /\ crashed = FALSE
    /\ last = NoCall
    /\ t_index \in StackTargets(stack_size)
    /\ t_width \in Widths
    /\ stale \in UninitFills
    /\ src = <<>>
    /\ parsed = NoParse
    /\ program = <<>>
    /\ program_counter = 0
    /\ operands = <<>>
    /\ t_instr = {}
    /\ data_pointer = 0
    /\ code_pointer = 0
    /\ t_target = 0
    /\ ignore = ParserIgnoreConfig_new
    /\ warnings = <<>>

Guard == ~crashed

Push ==
    /\ Guard
    /\ \E value \in PushValues(t_width) :
          LET r == push(pages, page_size, stack_pointer, stack_size, value)
          IN  /\ pages' = r.pages
              /\ stack_pointer' = r.sp
              /\ Record(Call("push", t_width, 0, value, r.status, <<>>))
    /\ UNCHANGED <<stack_size, overflow_flag>>
    /\ Fixed

Pop ==
    /\ Guard
    /\ LET r == pop(pages, page_size, stack_pointer, t_width)
       IN  /\ stack_pointer' = r.sp
           /\ Record(Call("pop", t_width, 0, <<>>, r.status, r.value))
    /\ UNCHANGED <<pages, stack_size, overflow_flag>>
    /\ Fixed

Peek ==
    /\ Guard
    /\ LET r == peek(pages, page_size, stack_pointer, t_width)
       IN  Record(Call("peek", t_width, 0, <<>>, r.status, r.value))
    /\ UNCHANGED <<pages, stack_pointer, stack_size, overflow_flag>>
    /\ Fixed

SetStackPointer ==
    /\ Guard
    /\ LET r == set_stack_pointer(stack_pointer, stack_size, t_index)
       IN  /\ stack_pointer' = r.sp
           /\ Record(Call("set_stack_pointer", 0, t_index, <<>>, r.status, <<>>))
    /\ UNCHANGED <<pages, stack_size, overflow_flag>>
    /\ Fixed

\* instructions::stack::drop_8 .. drop_64
Drop ==
    /\ Guard
    /\ LET r == pop(pages, page_size, stack_pointer, t_width)
       IN  /\ stack_pointer' = r.sp
           /\ Record(Call("drop", t_width, 0, <<>>, r.status, <<>>))
    /\ UNCHANGED <<pages, stack_size, overflow_flag>>
    /\ Fixed

\* memory_size and memory_grow work on u32 operands: they run in the behaviours
\* whose operand width is 4.
MemorySize ==
    /\ Guard
    /\ t_width = 4
    /\ LET r == memory_size(pages, page_size, stack_pointer, stack_size)
       IN  /\ pages' = r.pages
           /\ stack_pointer' = r.sp
           /\ Record(Call("memory_size", 4, 0, <<>>, r.status, <<>>))
    /\ UNCHANGED <<stack_size, overflow_flag>>
    /\ Fixed

MemoryGrow ==
    /\ Guard
    /\ t_width = 4
    /\ LET r == memory_grow(pages, page_size, max_pages, stack_pointer, stack_size,
                            overflow_flag, stale)
       IN  /\ pages' = r.pages
           /\ stack_pointer' = r.sp
           /\ overflow_flag' = r.flag
           /\ Record(Call("memory_grow", 4, 0, <<>>, r.status, <<>>))
    /\ UNCHANGED stack_size
    /\ Fixed

Next ==
    \/ Push
    \/ Pop
    \/ Peek
    \/ SetStackPointer
    \/ Drop
    \/ MemorySize
    \/ MemoryGrow

Spec == Init /\ [][Next]_vars

\* ------------------------------------------------------------------------
\* Processor::new_empty
\* ------------------------------------------------------------------------
\* 64 * 1024
MEMORY_DEFAULT_PAGE_SIZE == 65536

\* usize::MAX, the page limit new_empty gives its memory, as the largest number
\* the checker holds; no behaviour of new_empty's specification grows the memory.
USIZE_MAX == 2147483647

\* Processor::new_empty(program, stack_size): the assert_eq aborts unless the
\* stack size is a multiple of the default page size; fill is what the pages of
\* add_empty_pages happen to hold.
Processor_new_empty(requested, fill) ==
    IF requested % MEMORY_DEFAULT_PAGE_SIZE # 0
    THEN [status |-> ABORT, pages |-> <<>>, stack_size |-> 0]
    ELSE LET amount == requested \div MEMORY_DEFAULT_PAGE_SIZE
             a == add_empty_pages(<<>>, MEMORY_DEFAULT_PAGE_SIZE, USIZE_MAX, amount,
                                  FreshPages(MEMORY_DEFAULT_PAGE_SIZE, amount, fill))
         IN  [status |-> IF a.status = OK THEN OK ELSE ABORT,
              pages |-> a.pages,
              stack_size |-> requested]

\* The stack sizes asked of new_empty: every size up to the 100 bytes of the
\* scenario of the instructions, the 20 of the tests among them, and one default
\* page.
EmptyStackSizes == 0..100 \cup {MEMORY_DEFAULT_PAGE_SIZE}

\* The state Processor::new_empty(program, t_index) leaves: a processor, or the
\* abort of its assertion.  The behaviours work with u32 operands, the ones of
\* memory_size.
EmptyInit ==
    /\ t_index \in EmptyStackSizes
    /\ stale \in UninitFills
    /\ t_width = 4
    /\ page_size = MEMORY_DEFAULT_PAGE_SIZE
    /\ max_pages = USIZE_MAX
    /\ LET r == Processor_new_empty(t_index, stale)
       IN  /\ pages = r.pages
           /\ stack_size = r.stack_size
           /\ crashed = (r.status # OK)
           /\ last = Call("new_empty", 0, t_index, <<>>, r.status, <<>>)
    /\ stack_pointer = 0
    /\ overflow_flag = FALSE
    /\ src = <<>>
    /\ parsed = NoParse
    /\ program = <<>>
    /\ program_counter = 0
    /\ operands = <<>>
    /\ t_instr = {}
    /\ data_pointer = 0
    /\ code_pointer = 0
    /\ t_target = 0
    /\ ignore = ParserIgnoreConfig_new
    /\ warnings = <<>>

\* memory_size on an empty stack, as in test_memory_size.
EmptyMemorySize ==
    /\ stack_pointer = 0
    /\ MemorySize

EmptyNext ==
    \/ EmptyMemorySize
    \/ Pop

SpecEmpty == EmptyInit /\ [][EmptyNext]_vars

\* ------------------------------------------------------------------------
\* Instructions
\* ------------------------------------------------------------------------
\* std::mem::size_of::<u32>()
U32_BYTES == 4

\* Program::read_at
program_read_at(prog, index, n) ==
    IF index + n > Len(prog)
    THEN [status |-> SEGFAULT, bytes |-> Zeros(n)]
    ELSE [status |-> OK, bytes |-> SubSeq(prog, index + 1, index + n)]

\* code_next that advances the program counter even when the read fails.
code_next_always_advance(prog, pc, n) ==
    LET r == program_read_at(prog, pc, n)
    IN  [status |-> r.status, value |-> r.bytes, pc |-> pc + n]

\* Processor::code_next_u8 .. code_next_f64, n = size_of::<T>()
code_next_T(prog, pc, n) ==
    LET r == program_read_at(prog, pc, n)
    IN  IF r.status = OK
        THEN [status |-> OK, value |-> r.bytes, pc |-> pc + n]
        ELSE [status |-> r.status, value |-> r.bytes, pc |-> pc]

\* instructions::stack::const_8 .. const_64
const_N(pgs, ps, sp, ssize, prog, pc, n) ==
    LET c == code_next_T(prog, pc, n)
        q == push(pgs, ps, sp, ssize, c.value)
    IN  IF c.status # OK
        THEN [status |-> c.status, pages |-> pgs, sp |-> sp, pc |-> c.pc]
        ELSE [status |-> q.status, pages |-> q.pages, sp |-> q.sp, pc |-> c.pc]

\* instructions::stack::drop_8 .. drop_64
drop_N(pgs, ps, sp, n) ==
    LET p == pop(pgs, ps, sp, n)
    IN  [status |-> p.status, sp |-> p.sp]

\* The loop of memory_fill_N: for word in first..number_of_words-1, write or return.
RECURSIVE fill_loop(_, _, _, _, _, _)
fill_loop(pgs, ps, start_pointer, value, word, number_of_words) ==
    IF word >= number_of_words THEN [status |-> OK, pages |-> pgs]
    ELSE LET w == write_at(pgs, ps, start_pointer + word * Len(value), value)
         IN  IF w.status # OK THEN [status |-> w.status, pages |-> w.pages]
             ELSE fill_loop(w.pages, ps, start_pointer, value, word + 1, number_of_words)

\* memory_fill_N, given what its pops of value, number_of_words and start_pointer
\* returned: each `?` returns the first failure, the loop runs after the third.
memory_fill_popped(pgs, ps, p1, p2, p3) ==
    LET f == fill_loop(pgs, ps, from_le_bytes(p3.value), p1.value, 0, from_le_bytes(p2.value))
    IN  IF p1.status # OK THEN [status |-> p1.status, pages |-> pgs, sp |-> p1.sp]
        ELSE IF p2.status # OK THEN [status |-> p2.status, pages |-> pgs, sp |-> p2.sp]
        ELSE IF p3.status # OK THEN [status |-> p3.status, pages |-> pgs, sp |-> p3.sp]
        ELSE [status |-> f.status, pages |-> f.pages, sp |-> p3.sp]

\* instructions::memory::memory_fill_8 .. memory_fill_64
memory_fill_N(pgs, ps, sp, n) ==
    LET p1 == pop(pgs, ps, sp, n)
        p2 == pop(pgs, ps, p1.sp, U32_BYTES)
        p3 == pop(pgs, ps, p2.sp, U32_BYTES)
    IN  memory_fill_popped(pgs, ps, p1, p2, p3)

\* One turn of either loop of memory_copy: read_u8_at(origin + i), write_u8_at(target + i).
copy_byte(pgs, ps, origin_pointer, target_pointer, i) ==
    LET r == read_at(pgs, ps, origin_pointer + i, Zeros(1))
        w == write_at(pgs, ps, target_pointer + i, r.bytes)
    IN  IF r.status # OK THEN [status |-> r.status, pages |-> pgs] ELSE w

\* for i in i..number_of_bytes-1.  The turn's outcome c is a bound variable, so that
\* it is computed once per turn.
RECURSIVE copy_forward(_, _, _, _, _, _)
copy_forward(pgs, ps, origin_pointer, target_pointer, i, number_of_bytes) ==
    IF i >= number_of_bytes THEN [status |-> OK, pages |-> pgs]
    ELSE CHOOSE result \in
             {IF c.status # OK THEN c
              ELSE copy_forward(c.pages, ps, origin_pointer, target_pointer, i + 1,
                                number_of_bytes) :
                  c \in {copy_byte(pgs, ps, origin_pointer, target_pointer, i)}} : TRUE

\* for i in (0..i+1).rev()
RECURSIVE copy_backward(_, _, _, _, _)
copy_backward(pgs, ps, origin_pointer, target_pointer, i) ==
    IF i < 0 THEN [status |-> OK, pages |-> pgs]
    ELSE CHOOSE result \in
             {IF c.status # OK THEN c
              ELSE copy_backward(c.pages, ps, origin_pointer, target_pointer, i - 1) :
                  c \in {copy_byte(pgs, ps, origin_pointer, target_pointer, i)}} : TRUE

\* memory_copy, given what its pops of target_pointer, number_of_bytes and
\* origin_pointer returned.
memory_copy_popped(pgs, ps, p1, p2, p3) ==
    LET target_pointer == from_le_bytes(p1.value)
        number_of_bytes == from_le_bytes(p2.value)
        origin_pointer == from_le_bytes(p3.value)
        c == IF origin_pointer = target_pointer THEN [status |-> OK, pages |-> pgs]
             ELSE IF target_pointer < origin_pointer
             THEN copy_forward(pgs, ps, origin_pointer, target_pointer, 0, number_of_bytes)
             ELSE copy_backward(pgs, ps, origin_pointer, target_pointer, number_of_bytes - 1)
    IN  IF p1.status # OK THEN [status |-> p1.status, pages |-> pgs, sp |-> p1.sp]
        ELSE IF p2.status # OK THEN [status |-> p2.status, pages |-> pgs, sp |-> p2.sp]
        ELSE IF p3.status # OK THEN [status |-> p3.status, pages |-> pgs, sp |-> p3.sp]
        ELSE [status |-> c.status, pages |-> c.pages, sp |-> p3.sp]

\* instructions::memory::memory_copy
memory_copy(pgs, ps, sp) ==
    LET p1 == pop(pgs, ps, sp, U32_BYTES)
        p2 == pop(pgs, ps, p1.sp, U32_BYTES)
        p3 == pop(pgs, ps, p2.sp, U32_BYTES)
    IN  memory_copy_popped(pgs, ps, p1, p2, p3)

\* The push that ends memory_load_N, given what its pop and its read returned.
memory_load_read(pgs, ps, ssize, p, r) ==
    LET q == push(pgs, ps, p.sp, ssize, r.bytes)
    IN  IF p.status # OK THEN [status |-> p.status, pages |-> pgs, sp |-> p.sp]
        ELSE IF r.status # OK THEN [status |-> r.status, pages |-> pgs, sp |-> p.sp]
        ELSE [status |-> q.status, pages |-> q.pages, sp |-> q.sp]

\* memory_load_N, given what its pop of the pointer returned.
memory_load_popped(pgs, ps, ssize, n, p) ==
    memory_load_read(pgs, ps, ssize, p, read_at(pgs, ps, from_le_bytes(p.value), Zeros(n)))

\* instructions::memory::memory_load_8 .. memory_load_64
memory_load_N(pgs, ps, sp, ssize, n) ==
    memory_load_popped(pgs, ps, ssize, n, pop(pgs, ps, sp, U32_BYTES))

\* memory_store_N that refuses a pointer below the stack pointer.
memory_store_popped_guarded(pgs, ps, p1, p2) ==
    LET w == write_at(pgs, ps, from_le_bytes(p2.value), p1.value)
    IN  IF p1.status # OK THEN [status |-> p1.status, pages |-> pgs, sp |-> p1.sp]
        ELSE IF p2.status # OK THEN [status |-> p2.status, pages |-> pgs, sp |-> p2.sp]
        ELSE IF from_le_bytes(p2.value) < p2.sp
        THEN [status |-> SEGFAULT, pages |-> pgs, sp |-> p2.sp]
        ELSE [status |-> w.status, pages |-> w.pages, sp |-> p2.sp]

\* memory_store_N, given what its pops of the value and the pointer returned.
memory_store_popped(pgs, ps, p1, p2) ==
    LET w == write_at(pgs, ps, from_le_bytes(p2.value), p1.value)
    IN  IF p1.status # OK THEN [status |-> p1.status, pages |-> pgs, sp |-> p1.sp]
        ELSE IF p2.status # OK THEN [status |-> p2.status, pages |-> pgs, sp |-> p2.sp]
        ELSE [status |-> w.status, pages |-> w.pages, sp |-> p2.sp]

\* instructions::memory::memory_store_8 .. memory_store_64
memory_store_N(pgs, ps, sp, n) ==
    LET p1 == pop(pgs, ps, sp, n)
        p2 == pop(pgs, ps, p1.sp, U32_BYTES)
    IN  memory_store_popped(pgs, ps, p1, p2)

\* The push that ends program_data_load_N, given what its pop and its read returned.
program_data_load_read(pgs, ps, ssize, p, r) ==
    LET q == push(pgs, ps, p.sp, ssize, r.bytes)
    IN  IF r.status # OK THEN [status |-> r.status, pages |-> pgs, sp |-> p.sp]
        ELSE [status |-> q.status, pages |-> q.pages, sp |-> q.sp]

\* program_data_load_N, given what its pop of memory_position returned; dp and cp
\* are data_pointer() and data_pointer_end().
program_data_load_popped(pgs, ps, ssize, prog, dp, cp, n, p) ==
    LET memory_position == from_le_bytes(p.value)
        last_position == memory_position + n
    IN  IF p.status # OK THEN [status |-> p.status, pages |-> pgs, sp |-> p.sp]
        ELSE IF memory_position < dp \/ last_position > cp
        THEN [status |-> DATA_SEGFAULT, pages |-> pgs, sp |-> p.sp]
        ELSE program_data_load_read(pgs, ps, ssize, p,
                                    program_read_at(prog, memory_position, n))

\* instructions::memory::program_data_load_8 .. program_data_load_64
program_data_load_N(pgs, ps, sp, ssize, prog, dp, cp, n) ==
    program_data_load_popped(pgs, ps, ssize, prog, dp, cp, n, pop(pgs, ps, sp, U32_BYTES))

\* Program::data_pointer_end
data_pointer_end(cp) == cp

\* `input_value as uT`: the little-endian image of an unsigned value, widened to n bytes.
zero_extend(bytes, n) == bytes \o Zeros(n - Len(bytes))

\* `input_value as iT`: the two's-complement image of a signed value, widened to n
\* bytes; the sign is the top bit of the last byte.
sign_extend(bytes, n) ==
    bytes \o [k \in 1..(n - Len(bytes)) |-> IF bytes[Len(bytes)] >= 128 THEN 255 ELSE 0]

\* extend_S_to_T, given what its pop of the input value returned; t = size_of::<T>().
extend_popped(pgs, ps, ssize, t, p) ==
    IF p.status # OK THEN [status |-> p.status, pages |-> pgs, sp |-> p.sp]
    ELSE push(pgs, ps, p.sp, ssize, zero_extend(p.value, t))

\* instructions::arithmetic::casting::extend_8_to_16 .. extend_32_to_64
extend_S_to_T(pgs, ps, sp, ssize, s, t) ==
    extend_popped(pgs, ps, ssize, t, pop(pgs, ps, sp, s))

\* extend_sign_S_to_T, given what its pop of the input value returned.
extend_sign_popped(pgs, ps, ssize, t, p) ==
    IF p.status # OK THEN [status |-> p.status, pages |-> pgs, sp |-> p.sp]
    ELSE push(pgs, ps, p.sp, ssize, sign_extend(p.value, t))

\* instructions::arithmetic::casting::extend_sign_8_to_16 .. extend_sign_32_to_64
extend_sign_S_to_T(pgs, ps, sp, ssize, s, t) ==
    extend_sign_popped(pgs, ps, ssize, t, pop(pgs, ps, sp, s))

\* <[u8; n]>::try_from(slice): an array only from a slice of exactly n bytes.
try_into(slice, n) ==
    IF Len(slice) = n THEN [status |-> OK, value |-> slice]
    ELSE [status |-> "TryFromSliceError", value |-> Zeros(n)]

\* trunc_T_to_S, given what its pop of the input value returned: the whole image of
\* the input goes to try_into().unwrap(), which panics on an Err.
trunc_popped(pgs, ps, ssize, s, p) ==
    IF p.status # OK THEN [status |-> p.status, pages |-> pgs, sp |-> p.sp]
    ELSE IF try_into(p.value, s).status # OK
    THEN [status |-> ABORT, pages |-> pgs, sp |-> p.sp]
    ELSE push(pgs, ps, p.sp, ssize, try_into(p.value, s).value)

\* instructions::arithmetic::casting::trunc_16_to_8 .. trunc_64_to_32
trunc_T_to_S(pgs, ps, sp, ssize, t, s) ==
    trunc_popped(pgs, ps, ssize, s, pop(pgs, ps, sp, t))

\* instructions::general::branch
branch(pgs, ps, sp, pc) ==
    LET p == pop(pgs, ps, sp, U32_BYTES)
    IN  IF p.status # OK THEN [status |-> p.status, sp |-> p.sp, pc |-> pc]
        ELSE [status |-> OK, sp |-> p.sp, pc |-> from_le_bytes(p.value)]

\* branch_if_N that pops the code position only when it branches.
branch_if_N_pop_when_taken(pgs, ps, sp, pc, n) ==
    LET p1 == pop(pgs, ps, sp, n)
        p2 == pop(pgs, ps, p1.sp, U32_BYTES)
    IN  IF p1.status # OK THEN [status |-> p1.status, sp |-> p1.sp, pc |-> pc]
        ELSE IF p1.value = Zeros(n) THEN [status |-> OK, sp |-> p1.sp, pc |-> pc]
        ELSE IF p2.status # OK THEN [status |-> p2.status, sp |-> p2.sp, pc |-> pc]
        ELSE [status |-> OK, sp |-> p2.sp, pc |-> from_le_bytes(p2.value)]

\* instructions::general::branch_if_8 .. branch_if_64
branch_if_N(pgs, ps, sp, pc, n) ==
    LET p1 == pop(pgs, ps, sp, n)
        p2 == pop(pgs, ps, p1.sp, U32_BYTES)
    IN  IF p1.status # OK THEN [status |-> p1.status, sp |-> p1.sp, pc |-> pc]
        ELSE IF p2.status # OK THEN [status |-> p2.status, sp |-> p2.sp, pc |-> pc]
        ELSE [status |-> OK, sp |-> p2.sp,
              pc |-> IF p1.value # Zeros(n) THEN from_le_bytes(p2.value) ELSE pc]

\* ------------------------------------------------------------------------
\* Processor running instructions
\* ------------------------------------------------------------------------
\* The byte the memory holds at flat address a before anything is written.
InstrByte(a) == 32 + a

\* What an uninitialized page may hold here.
InstrUninitFills == {0, 21}

\* An operand of n bytes that all differ, and no byte of which the memory or the
\* program holds.
Word(n) == [k \in 1..n |-> 2 * k + 1]

\* The bytes of the program: the immediates the const_N and code_next_T calls read.
ProgramBytes == [k \in 1..(2 * U32_BYTES + 1) |-> 20 + k]

\* The sections a Program has: Program::new leaves both pointers at 0, and
\* Program::new_for_tests sets a data section that ends inside the program or at
\* the end of it.
DATA_START == 1
ProgramSections ==
    {[data |-> 0, code |-> 0],
     [data |-> DATA_START, code |-> U32_BYTES + 2],
     [data |-> DATA_START, code |-> Len(ProgramBytes)]}

\* The positions a run loads program data from: around either end of either data
\* section, for a value of w bytes.
DataPositions(w) ==
    {0, DATA_START, DATA_START + 1} \cup
    {position \in 0..Len(ProgramBytes) :
        \E section \in ProgramSections : position \in {section.code - w, section.code - w + 1}}

\* The runs: the instructions a run executes and the operands it pushes, in this
\* order, before and between them.  ssize is the stack size, msize the memory size.
Runs(w, ssize, msize) ==
    LET A(x) == to_le_bytes(x, U32_BYTES)
        addresses == {ssize, ssize + 1, msize - w, msize}
        values == {Word(w), Zeros(w)}
        counts == {1, U32_BYTES, U32_BYTES + 1}
        Run(instr, list) == [instr |-> instr, operands |-> list]
        u32_runs ==
            {Run({"memory_copy"}, <<A(o), A(n), A(t)>>) :
                 o \in {ssize, ssize + U32_BYTES}, n \in {0, 2, U32_BYTES},
                 t \in {ssize, ssize + 2, ssize + U32_BYTES, ssize + U32_BYTES + 2}}
            \cup {Run({"memory_copy"}, <<A(msize), A(2), A(t)>>) : t \in {ssize, msize}}
            \cup {Run({"memory_copy"}, <<Word(U32_BYTES), A(ssize), A(1), A(0)>>),
                  Run({"memory_fill", "memory_load"}, <<A(ssize), A(0), A(1), Word(U32_BYTES)>>),
                  Run({"memory_store", "memory_load"}, <<Word(U32_BYTES), A(0)>>),
                  Run({"memory_store", "memory_load"},
                      <<Word(U32_BYTES), A(0), Zeros(U32_BYTES)>>)}
            \cup {Run({"memory_grow", "memory_load"}, <<A(n)>>) : n \in counts}
            \cup {Run({"memory_grow", "memory_load"}, <<A(n1), A(n2)>>) : n1, n2 \in counts}
            \cup {Run({"branch", "code_next"}, <<A(a), A(b)>>) :
                      a, b \in {0, 1, U32_BYTES, Len(ProgramBytes) + 1}}
    IN  {Run({"memory_fill", "memory_load"}, <<A(start), A(n), Word(w), A(a)>>) :
             start \in {ssize, ssize + 1}, n \in 0..2, a \in {ssize, ssize + w}}
        \cup {Run({"memory_store", "memory_load"}, <<A(a), v, A(b)>>) :
                  a, b \in addresses, v \in values}
        \cup {Run({"branch_if", "code_next"}, <<A(a), v>>) :
                  a \in {0, 1, U32_BYTES, Len(ProgramBytes) + 1}, v \in values}
        \cup {Run({"branch_if", "code_next"}, <<Word(w), A(a), v>>) :
                  a \in {1, U32_BYTES}, v \in values}
        \cup {Run({"memory_grow", "memory_load"}, <<Word(w), A(n)>>) : n \in counts}
        \cup {Run({"program_data_load"}, <<A(position)>>) : position \in DataPositions(w)}
        \cup {Run({"program_data_load"}, <<Word(w), A(position)>>) :
                  position \in {DATA_START, DATA_START + 1}}
        \cup {Run({"code_next", "const", "drop"}, list) :
                  list \in {<<>>, <<Word(2 * U32_BYTES), Word(2 * U32_BYTES)>>}}
        \cup (IF w = U32_BYTES THEN u32_runs ELSE {})

\* The values a run casts: one of n bytes that all differ, and one whose sign bit
\* and every other top bit are set.
CastValues(n) == {Word(n), [k \in 1..n |-> 255 - k]}

\* The runs of the casts between the types of s and of t bytes, s < t.
CastRuns(s, t) ==
    LET Run(instr, list) == [instr |-> instr, operands |-> list]
    IN  {Run({"extend", "extend_sign"}, <<v>>) : v \in CastValues(s)}
        \cup {Run({"extend", "extend_sign"}, <<Word(s), v>>) : v \in CastValues(s)}
        \cup {Run({"trunc"}, <<v>>) : v \in CastValues(t)}
        \cup {Run({"extend", "trunc"}, <<v>>) : v \in CastValues(s)}

\* Processor::new(memory, program, stack_size) over a memory of InstrPages words,
\* held in pages of one word or in one page.  A run works with one width, t_width;
\* only the runs of memory_grow leave room for more pages.
InstrInit ==
    /\ page_size \in {U32_BYTES, U32_BYTES * InstrPages}
    /\ pages = [p \in 1..((U32_BYTES * InstrPages) \div page_size) |->
                   [k \in 1..page_size |-> InstrByte(FlatIndex(page_size, p, k))]]
    /\ stack_size = InstrStackSize
    /\ stack_pointer = 0
    /\ overflow_flag = FALSE
    /\ crashed = FALSE
    /\ last = NoCall
    /\ t_index = 0
    /\ t_width \in Widths
    /\ src = <<>>
    /\ parsed = NoParse
    /\ program = ProgramBytes
    /\ program_counter = 0
    /\ t_target \in {0} \cup {t \in Widths : t > t_width}
    /\ \E run \in (IF t_target = 0 THEN Runs(t_width, stack_size, size(pages, page_size))
                   ELSE CastRuns(t_width, t_target)) :
          /\ t_instr = run.instr
          /\ operands = run.operands
    /\ IF "memory_grow" \in t_instr
       THEN max_pages \in {Len(pages), Len(pages) + 1} /\ stale \in InstrUninitFills
       ELSE max_pages = Len(pages) /\ stale = 0
    /\ \E section \in ProgramSections :
          /\ "program_data_load" \notin t_instr => section.code = 0
          /\ data_pointer = section.data
          /\ code_pointer = section.code
    /\ ignore = ParserIgnoreConfig_new
    /\ warnings = <<>>

InstrFixed ==
    UNCHANGED <<page_size, max_pages, stack_size, t_index, t_width, stale, src, parsed,
                program, t_instr, data_pointer, code_pointer, t_target, ignore, warnings>>

\* push_uN of the next operand
PushOperand ==
    /\ Guard
    /\ operands # <<>>
    /\ LET value == Head(operands)
           r == push(pages, page_size, stack_pointer, stack_size, value)
       IN  /\ pages' = r.pages
           /\ stack_pointer' = r.sp
           /\ Record(Call("push", Len(value), 0, value, r.status, <<>>))
    /\ operands' = Tail(operands)
    /\ UNCHANGED <<overflow_flag, program_counter>>
    /\ InstrFixed

CodeNext ==
    /\ Guard
    /\ "code_next" \in t_instr
    /\ LET r == code_next_T(program, program_counter, t_width)
       IN  /\ program_counter' = r.pc
           /\ Record(Call("code_next", t_width, program_counter, <<>>, r.status, r.value))
    /\ UNCHANGED <<pages, stack_pointer, overflow_flag, operands>>
    /\ InstrFixed

Const ==
    /\ Guard
    /\ "const" \in t_instr
    /\ LET r == const_N(pages, page_size, stack_pointer, stack_size, program,
                        program_counter, t_width)
       IN  /\ pages' = r.pages
           /\ stack_pointer' = r.sp
           /\ program_counter' = r.pc
           /\ Record(Call("const", t_width, program_counter, <<>>, r.status, <<>>))
    /\ UNCHANGED <<overflow_flag, operands>>
    /\ InstrFixed

DropN ==
    /\ Guard
    /\ "drop" \in t_instr
    /\ LET r == drop_N(pages, page_size, stack_pointer, t_width)
       IN  /\ stack_pointer' = r.sp
           /\ Record(Call("drop", t_width, 0, <<>>, r.status, <<>>))
    /\ UNCHANGED <<pages, overflow_flag, program_counter, operands>>
    /\ InstrFixed

MemoryCopy ==
    /\ Guard
    /\ "memory_copy" \in t_instr
    /\ LET r == memory_copy(pages, page_size, stack_pointer)
       IN  /\ pages' = r.pages
           /\ stack_pointer' = r.sp
           /\ Record(Call("memory_copy", 0, 0, <<>>, r.status, <<>>))
    /\ UNCHANGED <<overflow_flag, program_counter, operands>>
    /\ InstrFixed

MemoryFill ==
    /\ Guard
    /\ "memory_fill" \in t_instr
    /\ LET r == memory_fill_N(pages, page_size, stack_pointer, t_width)
       IN  /\ pages' = r.pages
           /\ stack_pointer' = r.sp
           /\ Record(Call("memory_fill", t_width, 0, <<>>, r.status, <<>>))
    /\ UNCHANGED <<overflow_flag, program_counter, operands>>
    /\ InstrFixed

MemoryLoad ==
    /\ Guard
    /\ "memory_load" \in t_instr
    /\ LET r == memory_load_N(pages, page_size, stack_pointer, stack_size, t_width)
       IN  /\ pages' = r.pages
           /\ stack_pointer' = r.sp
           /\ Record(Call("memory_load", t_width, 0, <<>>, r.status, <<>>))
    /\ UNCHANGED <<overflow_flag, program_counter, operands>>
    /\ InstrFixed

MemoryStore ==
    /\ Guard
    /\ "memory_store" \in t_instr
    /\ LET r == memory_store_N(pages, page_size, stack_pointer, t_width)
       IN  /\ pages' = r.pages
           /\ stack_pointer' = r.sp
           /\ Record(Call("memory_store", t_width, 0, <<>>, r.status, <<>>))
    /\ UNCHANGED <<overflow_flag, program_counter, operands>>
    /\ InstrFixed

GrowMemory ==
    /\ Guard
    /\ "memory_grow" \in t_instr
    /\ LET r == memory_grow(pages, page_size, max_pages, stack_pointer, stack_size,
                            overflow_flag, stale)
       IN  /\ pages' = r.pages
           /\ stack_pointer' = r.sp
           /\ overflow_flag' = r.flag
           /\ Record(Call("memory_grow", U32_BYTES, 0, <<>>, r.status, <<>>))
    /\ UNCHANGED <<program_counter, operands>>
    /\ InstrFixed

ProgramDataLoad ==
    /\ Guard
    /\ "program_data_load" \in t_instr
    /\ LET r == program_data_load_N(pages, page_size, stack_pointer, stack_size, program,
                                    data_pointer, data_pointer_end(code_pointer), t_width)
       IN  /\ pages' = r.pages
           /\ stack_pointer' = r.sp
           /\ Record(Call("program_data_load", t_width, 0, <<>>, r.status, <<>>))
    /\ UNCHANGED <<overflow_flag, program_counter, operands>>
    /\ InstrFixed

Extend ==
    /\ Guard
    /\ "extend" \in t_instr
    /\ LET r == extend_S_to_T(pages, page_size, stack_pointer, stack_size, t_width, t_target)
       IN  /\ pages' = r.pages
           /\ stack_pointer' = r.sp
           /\ Record(Call("extend", t_width, 0, <<>>, r.status, <<>>))
    /\ UNCHANGED <<overflow_flag, program_counter, operands>>
    /\ InstrFixed

ExtendSign ==
    /\ Guard
    /\ "extend_sign" \in t_instr
    /\ LET r == extend_sign_S_to_T(pages, page_size, stack_pointer, stack_size, t_width,
                                   t_target)
       IN  /\ pages' = r.pages
           /\ stack_pointer' = r.sp
           /\ Record(Call("extend_sign", t_width, 0, <<>>, r.status, <<>>))
    /\ UNCHANGED <<overflow_flag, program_counter, operands>>
    /\ InstrFixed

Trunc ==
    /\ Guard
    /\ "trunc" \in t_instr
    /\ LET r == trunc_T_to_S(pages, page_size, stack_pointer, stack_size, t_target, t_width)
       IN  /\ pages' = r.pages
           /\ stack_pointer' = r.sp
           /\ Record(Call("trunc", t_target, 0, <<>>, r.status, <<>>))
    /\ UNCHANGED <<overflow_flag, program_counter, operands>>
    /\ InstrFixed

Branch ==
    /\ Guard
    /\ "branch" \in t_instr
    /\ LET r == branch(pages, page_size, stack_pointer, program_counter)
       IN  /\ stack_pointer' = r.sp
           /\ program_counter' = r.pc
           /\ Record(Call("branch", 0, program_counter, <<>>, r.status, <<>>))
    /\ UNCHANGED <<pages, overflow_flag, operands>>
    /\ InstrFixed

BranchIf ==
    /\ Guard
    /\ "branch_if" \in t_instr
    /\ LET r == branch_if_N(pages, page_size, stack_pointer, program_counter, t_width)
       IN  /\ stack_pointer' = r.sp
           /\ program_counter' = r.pc
           /\ Record(Call("branch_if", t_width, program_counter, <<>>, r.status, <<>>))
    /\ UNCHANGED <<pages, overflow_flag, operands>>
    /\ InstrFixed

\* The getter Processor::stack_size(); ret holds the number it returns.
StackSize ==
    /\ Guard
    /\ Record(Call("stack_size", 0, 0, <<>>, OK,
                   <<Processor_stack_size(stack_pointer, stack_size)>>))
    /\ UNCHANGED <<pages, stack_pointer, overflow_flag, program_counter, operands>>
    /\ InstrFixed

InstrNext ==
    \/ PushOperand
    \/ StackSize
    \/ CodeNext
    \/ Const
    \/ DropN
    \/ MemoryCopy
    \/ MemoryFill
    \/ GrowMemory
    \/ MemoryLoad
    \/ MemoryStore
    \/ ProgramDataLoad
    \/ Extend
    \/ ExtendSign
    \/ Trunc
    \/ Branch
    \/ BranchIf

SpecInstr == InstrInit /\ [][InstrNext]_vars

\* ------------------------------------------------------------------------
\* Parser: one parse of one source text
\* ------------------------------------------------------------------------
VmUnchanged ==
    UNCHANGED <<page_size, max_pages, pages, stack_pointer, stack_size, overflow_flag,
                crashed, last, t_index, t_width, stale, program, program_counter, operands, t_instr,
                data_pointer, code_pointer, t_target>>

ParserStart(sources) ==
    /\ src \in sources
    /\ parsed = NoParse
    /\ page_size = 1
    /\ max_pages = 0
    /\ pages = <<>>
    /\ stack_pointer = 0
    /\ stack_size = 0
    /\ overflow_flag = FALSE
    /\ crashed = FALSE
    /\ last = NoCall
    /\ t_index = 0
    /\ t_width = 1
    /\ stale = 0
    /\ program = <<>>
    /\ program_counter = 0
    /\ operands = <<>>
    /\ t_instr = {}
    /\ data_pointer = 0
    /\ code_pointer = 0
    /\ t_target = 0
    /\ ignore = ParserIgnoreConfig_new
    /\ warnings = <<>>

ParserInit == ParserStart(Sources)

ParseModule ==
    /\ parsed = NoParse
    /\ parsed' = [op |-> "Module::parse", result |-> ModuleParse(src)]
    /\ warnings' = warnings \o ModuleWarnings(ignore, src)
    /\ UNCHANGED <<src, ignore>>
    /\ VmUnchanged

ParseStatement ==
    /\ parsed = NoParse
    /\ parsed' = [op |-> "Statement::parse", result |-> StatementParse(src, 0)]
    /\ warnings' = warnings \o StatementWarnings(ignore, src, 0)
    /\ UNCHANGED <<src, ignore>>
    /\ VmUnchanged

\* Identifier::read_keyword(CONST_DECLARATION_KEYWORD) at the start of the text.
ReadKeyword ==
    /\ parsed = NoParse
    /\ parsed' = [op |-> "Identifier::read_keyword",
                  result |-> read_keyword(src, 0, CONST_DECLARATION_KEYWORD)]
    /\ UNCHANGED <<src, ignore, warnings>>
    /\ VmUnchanged

ParserNext ==
    \/ ParseModule
    \/ ParseStatement
    \/ ReadKeyword

SpecParser == ParserInit /\ [][ParserNext]_vars

\* ------------------------------------------------------------------------
\* Comment::parse over short texts
\* ------------------------------------------------------------------------
\* The start token, the forbidden characters, a letter, a space and a line break.
CommentChars == {"#", "[", "{", "(", "+", "-", "c", " ", "\n"}

\* Every text of at most MaxFragments of these characters.
CommentSources == UNION {[1..n -> CommentChars] : n \in 0..MaxFragments}

CommentInit == ParserStart(CommentSources)

ParseComment ==
    /\ parsed = NoParse
    /\ parsed' = [op |-> "Comment::parse", result |-> CommentParse(src, 0)]
    /\ UNCHANGED <<src, ignore, warnings>>
    /\ VmUnchanged

\* Comment::message of the comment just parsed.
CommentMessage ==
    /\ parsed.op = "Comment::parse"
    /\ parsed.result.res = "Ok"
    /\ parsed' = [op |-> "Comment::message",
                  result |-> ParseOk(parsed.result.pos, message(src, parsed.result.node))]
    /\ UNCHANGED <<src, ignore, warnings>>
    /\ VmUnchanged

CommentNext ==
    \/ ParseComment
    \/ CommentMessage

SpecComment == CommentInit /\ [][CommentNext]_vars

\* ------------------------------------------------------------------------
\* Number::parse_decimal over decimal literals
\* ------------------------------------------------------------------------
DigitStrings(lo) == UNION {[1..n -> {"0", "1"}] : n \in lo..MaxDigits}

\* The number of decimal digits in a text.
DigitCount(text) == Cardinality({k \in 1..Len(text) : text[k] \in DECIMAL_DIGITS})

\* integer_digits ('.' fractional_digits)? ([eE] [+-]? exponent_digits)? with the
\* digits after '.' and after the exponent token possibly missing, of at most
\* MaxDigits + 3 digits in all, with or without more text after the literal;
\* and texts that start with no digit.
NumberSources ==
    LET decimals == {<<>>} \cup {<<NUMBER_DECIMAL_SEPARATOR>> \o d : d \in DigitStrings(0)}
        tokens == {<<"e">>, <<"e", "+">>, <<"e", "-">>, <<"E">>}
        exponents == {<<>>} \cup {t \o d : t \in tokens, d \in DigitStrings(0)}
        rest == {<<>>, <<" ">>}
        literals == {i \o f \o x : i \in DigitStrings(1), f \in decimals, x \in exponents}
    IN  {l \o r : l \in {t \in literals : DigitCount(t) <= MaxDigits + 3}, r \in rest}
        \cup {<<>>, Chars(".1"), Chars("e1"), Chars("a1"), Chars("01.10e01")}

\* Literals at the limits of Number::convert_to_number: fractional digits around
\* u32::MAX and exponents around i32::MAX and i32::MIN, also with zeros before
\* or after them.  The exponent of a value is kept as an integer of the checker,
\* so exponents below zero go with literals without fractional digits.
LimitSources ==
    LET fractions == {Chars(".4294967295"), Chars(".4294967296"), Chars(".42949672950"),
                      Chars(".42949672960"), Chars(".04294967295"), Chars(".04294967296"),
                      Chars(".4294967294"), Chars(".5294967295"), Chars(".10000000001"),
                      Chars(".999999999")}
        magnitudes == {Chars("2147483647"), Chars("2147483648"), Chars("2147483649"),
                       Chars("02147483647"), Chars("02147483648"), Chars("21474836470"),
                       Chars("3147483647"), Chars("999999999")}
        positive == {<<e>> \o sign \o d : e \in NUMBER_DECIMAL_EXPONENT_TOKEN,
                                            sign \in {<<>>, <<"+">>}, d \in magnitudes}
        negative == {<<"e", "-">> \o d : d \in magnitudes}
        integers == {<<"0">>, <<"1">>}
        rest == {<<>>, <<" ">>}
    IN  {i \o f \o x \o r : i \in integers, f \in fractions \cup {<<>>},
                             x \in positive \cup {<<>>, Chars("e1")}, r \in rest}
        \cup {i \o x \o r : i \in integers, x \in negative, r \in rest}

NumberStart(sources) ==
    /\ src \in sources
    /\ ignore = ParserIgnoreConfig_new
    /\ warnings = <<>>
    /\ parsed = NoParse
    /\ page_size = 1
    /\ max_pages = 0
    /\ pages = <<>>
    /\ stack_pointer = 0
    /\ stack_size = 0
    /\ overflow_flag = FALSE
    /\ crashed = FALSE
    /\ last = NoCall
    /\ t_index = 0
    /\ t_width = 1
    /\ stale = 0
    /\ program = <<>>
    /\ program_counter = 0
    /\ operands = <<>>
    /\ t_instr = {}
    /\ data_pointer = 0
    /\ code_pointer = 0
    /\ t_target = 0

NumberInit == NumberStart(NumberSources)

NumberLimitsInit == NumberStart(LimitSources)

ParseDecimal ==
    /\ parsed = NoParse
    /\ parsed' = [op |-> "Number::parse_decimal", result |-> NumberParseDecimalIn(ignore, src, 0)]
    /\ warnings' = warnings \o NumberParseDecimalWarnings(ignore, src, 0)
    /\ UNCHANGED <<src, ignore>>
    /\ VmUnchanged

\* Number::parse_decimal over the same text with a new ParserInput, whose context
\* has a ParserIgnoreConfig with one flag changed and no warnings yet.
ParseDecimalOtherConfig ==
    /\ parsed.op = "Number::parse_decimal"
    /\ UNCHANGED src
    /\ ignore' \in {[ignore EXCEPT !.number_leading_zeroes = ~@],
                    [ignore EXCEPT !.number_trailing_zeroes = ~@]}
    /\ parsed' = [op |-> "Number::parse_decimal", result |-> NumberParseDecimalIn(ignore', src, 0)]
    /\ warnings' = NumberParseDecimalWarnings(ignore', src, 0)
    /\ VmUnchanged

\* Number::parse_decimal over the content of the span of the number just parsed.
ParseSpanContent ==
    /\ parsed.op = "Number::parse_decimal"
    /\ parsed.result.res = "Ok"
    /\ parsed' = [op |-> "Number::parse_decimal(span)",
                  result |-> NumberParseDecimal(
                                 SubSeq(src, parsed.result.node.start + 1,
                                        parsed.result.node.end), 0)]
    /\ warnings' = NumberParseDecimalWarnings(ignore, SubSeq(src, parsed.result.node.start + 1,
                                                              parsed.result.node.end), 0)
    /\ UNCHANGED <<src, ignore>>
    /\ VmUnchanged

\* Number::parse_decimal once more on the same ParserInput, its cursor restored to
\* the start of the text: the context keeps the warnings it holds.
ParseDecimalRestored ==
    /\ parsed.op = "Number::parse_decimal"
    /\ parsed' = [op |-> "Number::parse_decimal(restored)",
                  result |-> NumberParseDecimalIn(ignore, src, 0)]
    /\ warnings' = warnings \o NumberParseDecimalWarnings(ignore, src, 0)
    /\ UNCHANGED <<src, ignore>>
    /\ VmUnchanged

NumberNext ==
    \/ ParseDecimal
    \/ ParseDecimalOtherConfig
    \/ ParseSpanContent
    \/ ParseDecimalRestored

SpecNumber == NumberInit /\ [][NumberNext]_vars

SpecNumberLimits == NumberLimitsInit /\ [][NumberNext]_vars

\* ------------------------------------------------------------------------
\* Properties of Processor
\* ------------------------------------------------------------------------
StackReadOps == {"pop", "peek"}

\* C1: in every reachable Processor state, after calls that succeed and calls that
\* fault alike, 0 <= stack_pointer <= stack_size and stack_size <= memory.size().
C1_StackInvariant ==
    /\ 0 <= stack_pointer
    /\ stack_pointer <= stack_size
    /\ stack_size <= size(pages, page_size)

C1_Witness ==
    /\ last.op = "memory_grow"
    /\ last.result = OK
    /\ ~overflow_flag
    /\ Len(pages) >= 2
    /\ stack_pointer = stack_size

\* C2: for every width T and every state with stack_pointer + sizeof(T) <= stack_size,
\* push_T(v) succeeds, and a pop_T that follows it at once returns v and puts the
\* stack pointer back where it was before the push, at every stack depth.
C2_PushPopRoundTrip ==
    [][ /\ (last'.op = "push" /\ stack_pointer + t_width <= stack_size)
            => last'.result = OK
        /\ (last.op = "push" /\ last.result = OK /\ last'.op = "pop")
            => /\ last'.result = OK
               /\ last'.ret = last.arg
               /\ stack_pointer' = stack_pointer - last.width ]_vars

\* C3: a push with stack_pointer + sizeof(T) > stack_size returns
\* Panic("Stack overflow"), a pop or peek with sizeof(T) > stack_pointer returns
\* Panic("Stack underflow"), and either leaves the stack pointer and every byte of
\* memory as they were.
C3_StackFaults ==
    [][ /\ (last'.op = "push" /\ stack_pointer + t_width > stack_size)
            => last'.result = STACK_OVERFLOW
        /\ (last'.op \in StackReadOps /\ t_width > stack_pointer)
            => last'.result = STACK_UNDERFLOW
        /\ (last'.op \in (StackReadOps \cup {"push"})
              /\ last'.result \in {STACK_OVERFLOW, STACK_UNDERFLOW})
            => (stack_pointer' = stack_pointer /\ pages' = pages) ]_vars

C3_Witness ==
    /\ last.op = "push"
    /\ last.result = STACK_OVERFLOW
    /\ stack_pointer > 0
    /\ stack_pointer < stack_size
    /\ stack_size < size(pages, page_size)

\* ------------------------------------------------------------------------
\* Properties of Memory
\* ------------------------------------------------------------------------
WriteOps == {"write_at", "write_T_at"}
ReadOps == {"read_at", "read_T_at"}
AddOps == {"add_page", "add_empty_page", "add_empty_pages"}

\* The flat bytes [index, index + len) of a memory.
FlatRange(pgs, ps, index, len) == [k \in 1..len |-> FlatByte(pgs, ps, index + k - 1)]

\* RECURSIVE sum of the lengths of the pages: the number of bytes the memory holds.
RECURSIVE TotalBytes(_)
TotalBytes(pgs) == IF pgs = <<>> THEN 0 ELSE Len(Head(pgs)) + TotalBytes(Tail(pgs))

\* C4: for every width T and every index i with i + sizeof(T) <= size(),
\* write_T_at(i, v) succeeds and an immediately following read_T_at(i) returns v,
\* for every offset of i inside a page and every page size.
C4_WriteReadRoundTrip ==
    [][ /\ (last'.op = "write_T_at" /\ t_index + t_width <= size(pages, page_size))
            => last'.result = OK
        /\ (last.op = "write_T_at" /\ last.result = OK /\ last'.op = "read_T_at")
            => (last'.result = OK /\ last'.ret = last.arg) ]_vars

\* C5: a successful write_at(index, bytes) sets the flat bytes [index, index+len)
\* to the given bytes and leaves every other byte unchanged, and a successful
\* read_at(index, buf) returns exactly the flat bytes [index, index+len).
C5_FlatMemory ==
    [][ /\ (last'.op \in WriteOps /\ last'.result = OK)
            => /\ Len(pages') = Len(pages)
               /\ \A a \in 0..(size(pages, page_size) - 1) :
                     FlatByte(pages', page_size, a) =
                        IF a >= last'.index /\ a < last'.index + Len(last'.arg)
                        THEN last'.arg[a - last'.index + 1]
                        ELSE FlatByte(pages, page_size, a)
        /\ (last'.op \in ReadOps /\ last'.result = OK)
            => last'.ret = FlatRange(pages, page_size, last'.index, last'.width) ]_vars

\* C6: after any sequence of Memory operations, succeeding or failing, every page
\* is exactly page_size bytes long, the bytes held are size() = pages() * page_size,
\* and pages() <= max_pages.
C6_MemoryInvariant ==
    /\ Len(pages) <= max_pages
    /\ \A p \in 1..Len(pages) : Len(pages[p]) = page_size
    /\ TotalBytes(pages) = size(pages, page_size)

C6_Witness ==
    /\ last.op = "add_page"
    /\ last.result = OUT_OF_BOUNDS
    /\ Len(pages) = max_pages
    /\ Len(pages) >= 2

\* C7: read_at, write_at and the typed wrappers called with index + len > size()
\* return Panic("Segmentation Fault"), and a write_at that fails so changes no
\* byte of any page and no page count.
C7_SegmentationFault ==
    [][ /\ (last'.op \in (ReadOps \cup WriteOps)
              /\ last'.index + last'.width > size(pages, page_size))
            => last'.result = SEGFAULT
        /\ (last'.op \in WriteOps /\ last'.result = SEGFAULT) => pages' = pages ]_vars

C7_Witness ==
    /\ last.op = "write_T_at"
    /\ last.result = SEGFAULT
    /\ last.index < size(pages, page_size)
    /\ last.index + last.width > size(pages, page_size)

\* C8: add_page (given a page of page_size bytes), add_empty_page and
\* add_empty_pages(n) fail with Panic("Memory out of bounds") exactly when
\* pages() + n > max_pages; a failing call adds no page, a succeeding call adds
\* exactly n pages after the existing ones.
AmountOf(c) == IF c.op = "add_empty_pages" THEN c.width ELSE 1

C8_AddPages ==
    [][ (last'.op \in AddOps /\ (last'.op = "add_page" => Len(last'.arg) = page_size))
        => /\ last'.result \in {OK, OUT_OF_BOUNDS}
           /\ (last'.result = OUT_OF_BOUNDS) <=> (Len(pages) + AmountOf(last') > max_pages)
           /\ (last'.result = OUT_OF_BOUNDS) => pages' = pages
           /\ (last'.result = OK)
                => /\ Len(pages') = Len(pages) + AmountOf(last')
                   /\ SubSeq(pages', 1, Len(pages)) = pages ]_vars

C8_Witness ==
    /\ last.op = "add_empty_pages"
    /\ last.width = 2
    /\ last.result = OUT_OF_BOUNDS
    /\ Len(pages) = max_pages - 1

\* ------------------------------------------------------------------------
\* Properties of the parser
\* ------------------------------------------------------------------------
\* A line break lies between the offsets a and b of the source text.
HasLineBreak(a, b) == \E k \in (a + 1)..b : src[k] = "\n"

\* The statements Module::parse had accepted when it returned.
Accepted == parsed.result.node.statements

\* Where the input is after the last accepted statement and the whitespace and
\* comments that follow it.
StopOffset ==
    SkipWhitespace(src, IF Accepted = <<>> THEN 0 ELSE Accepted[Len(Accepted)].end)

\* C9: consecutive statements that Module::parse accepts are separated by a
\* whitespace with a line break in it; a statement that follows an accepted one
\* with no whitespace or with whitespace confined to one line makes Module::parse
\* return the hard error ModuleTwoStatementsInline whose cursor highlight is at
\* the start of that statement; the first statement needs no separator.
C9_StatementsSeparated ==
    parsed.op = "Module::parse" =>
        LET r == parsed.result
            n == Len(Accepted)
            first == StatementParse(src, SkipWhitespace(src, 0))
            next == StatementParse(src, StopOffset)
        IN  /\ \A i \in 1..(n - 1) :
                  /\ WhitespaceParse(src, Accepted[i].end).pos = Accepted[i + 1].start
                  /\ HasLineBreak(Accepted[i].end, Accepted[i + 1].start)
            /\ (n >= 1 /\ next.res = "Ok" /\ ~HasLineBreak(Accepted[n].end, StopOffset))
                  => /\ r.res = "Error"
                     /\ r.kind = "ModuleTwoStatementsInline"
                     /\ r.hl.cursor = StopOffset
            /\ (first.res = "Ok") => (n >= 1 /\ Accepted[1] = first.node)
            /\ (r.kind = "ModuleTwoStatementsInline") => n >= 1

C9_Witness ==
    /\ parsed.op = "Module::parse"
    /\ parsed.result.res = "Ok"
    /\ Len(Accepted) = 2
    /\ Accepted[1].start = 0
    /\ Accepted[2].start >= Accepted[1].end + 3

\* C10 as stated: whenever content that is not a statement remains after the last
\* accepted statement and the whitespace after it, Module::parse returns the hard
\* error ModuleUnrecognizedEOF with the section from there to the end highlighted.
C10_AnyResidual ==
    parsed.op = "Module::parse" =>
        ( (StopOffset < Len(src) /\ StatementParse(src, StopOffset).res # "Ok")
            => /\ parsed.result.res = "Error"
               /\ parsed.result.kind = "ModuleUnrecognizedEOF"
               /\ parsed.result.hl.from = StopOffset
               /\ parsed.result.hl.to = Len(src) )

\* C10, amended: whenever content on which Statement::parse returns NotFound remains
\* after the last accepted statement and the whitespace after it, Module::parse
\* returns the hard error ModuleUnrecognizedEOF, whose highlighted section runs
\* from the offset where parsing stopped to the end of the input.
C10_UnrecognizedEOF ==
    parsed.op = "Module::parse" =>
        ( (StopOffset < Len(src) /\ StatementParse(src, StopOffset).res = "NotFound")
            => /\ parsed.result.res = "Error"
               /\ parsed.result.kind = "ModuleUnrecognizedEOF"
               /\ parsed.result.hl.from = StopOffset
               /\ parsed.result.hl.to = Len(src) )

C10_Witness ==
    /\ parsed.op = "Module::parse"
    /\ parsed.result.kind = "ModuleUnrecognizedEOF"
    /\ Len(Accepted) >= 1
    /\ parsed.result.hl.from > Accepted[Len(Accepted)].end
    /\ parsed.result.hl.to > parsed.result.hl.from

\* The offset after the keyword const at the start of the source text, and after
\* the whitespace, identifier, whitespace, '=' and whitespace that may follow it.
KEYWORD_END == Len(CONST_DECLARATION_KEYWORD)
StartsWithKeyword ==
    /\ Len(src) >= KEYWORD_END
    /\ SubSeq(src, 1, KEYWORD_END) = CONST_DECLARATION_KEYWORD
    /\ (Len(src) = KEYWORD_END \/ src[KEYWORD_END + 1] \notin (HEAD_CHARS \cup BODY_CHARS))
IdentifierStart == SkipWhitespace(src, KEYWORD_END)
HasIdentifier == IdentifierStart < Len(src) /\ src[IdentifierStart + 1] \in HEAD_CHARS
AssignOffset ==
    SkipWhitespace(src, ReadAnyOf0(src, IdentifierStart + 1, HEAD_CHARS \cup BODY_CHARS))
HasAssign == AssignOffset < Len(src) /\ src[AssignOffset + 1] = "="
ExpressionStart == SkipWhitespace(src, AssignOffset + 1)

\* C11: once ConstDeclaration::parse has read the whole-word keyword const it never
\* returns NotFound: a missing identifier gives ConstDeclarationWithoutIdentifier,
\* an identifier not followed by '=' gives ConstDeclarationWithoutAssignExpression,
\* '=' not followed by an expression gives ConstDeclarationWithoutExpression, and on
\* success the span runs from the keyword to the end of the expression.
C11_ConstDeclarationErrors ==
    (parsed.op = "Statement::parse" /\ StartsWithKeyword) =>
        LET r == parsed.result
            expression == ExpressionParse(src, ExpressionStart)
        IN  /\ r.res # "NotFound"
            /\ ~HasIdentifier
                  => (r.res = "Error" /\ r.kind = "ConstDeclarationWithoutIdentifier")
            /\ (HasIdentifier /\ ~HasAssign)
                  => (r.res = "Error" /\ r.kind = "ConstDeclarationWithoutAssignExpression")
            /\ (HasIdentifier /\ HasAssign /\ expression.res = "NotFound")
                  => (r.res = "Error" /\ r.kind = "ConstDeclarationWithoutExpression")
            /\ (r.res = "Ok")
                  => /\ HasIdentifier /\ HasAssign /\ expression.res = "Ok"
                     /\ r.node.start = 0
                     /\ r.node.end = expression.pos
                     /\ r.pos = expression.pos

C11_Witness ==
    /\ parsed.op = "Statement::parse"
    /\ StartsWithKeyword
    /\ HasIdentifier
    /\ HasAssign
    /\ parsed.result.kind = "ConstDeclarationWithoutExpression"

\* The parts of the literal at the start of the source text, as written.
LiteralEnd == parsed.result.node.end
SeparatorAt == IF \E k \in 1..LiteralEnd : src[k] = "."
               THEN CHOOSE k \in 1..LiteralEnd : src[k] = "." ELSE 0
ExponentAt == IF \E k \in 1..LiteralEnd : src[k] \in {"e", "E"}
              THEN CHOOSE k \in 1..LiteralEnd : src[k] \in {"e", "E"} ELSE 0
MantissaEnd == IF ExponentAt = 0 THEN LiteralEnd ELSE ExponentAt - 1
IntegerDigits == SubSeq(src, 1, IF SeparatorAt = 0 THEN MantissaEnd ELSE SeparatorAt - 1)
FractionalDigits == IF SeparatorAt = 0 THEN <<>> ELSE SubSeq(src, SeparatorAt + 1, MantissaEnd)
ExponentDigits ==
    IF ExponentAt = 0 THEN <<>>
    ELSE SubSeq(src, ExponentAt + (IF src[ExponentAt + 1] \in {"+", "-"} THEN 2 ELSE 1),
                LiteralEnd)
ExponentValue ==
    IF ExponentAt # 0 /\ src[ExponentAt + 1] = "-" THEN 0 - from_str_radix(ExponentDigits)
    ELSE from_str_radix(ExponentDigits)

\* mantissa * 10^exponent with the powers of ten moved out of the mantissa.
RECURSIVE Reduced(_, _)
Reduced(mantissa, exponent) ==
    IF mantissa = 0 THEN [mantissa |-> 0, exponent |-> 0]
    ELSE IF mantissa % 10 = 0 THEN Reduced(mantissa \div 10, exponent + 1)
    ELSE [mantissa |-> mantissa, exponent |-> exponent]

\* (integer * 10^|f| + fractional) / 10^|f| * 10^exponent over the digits as written.
ExactValue ==
    Reduced(from_str_radix(IntegerDigits) * Pow10(Len(FractionalDigits))
                + from_str_radix(FractionalDigits),
            ExponentValue - Len(FractionalDigits))

\* The value of the number just parsed, its mantissa as a number.
ParsedValue ==
    [mantissa |-> from_str_radix(parsed.result.node.value.mantissa),
     exponent |-> parsed.result.node.value.exponent]

ValueIsExact ==
    (parsed.op = "Number::parse_decimal" /\ parsed.result.res = "Ok") =>
        /\ ParsedValue = ExactValue
        /\ (SubSeq(src, 1, LiteralEnd) = Chars("1.10e-0"))
              => ParsedValue = [mantissa |-> 11, exponent |-> 0 - 1]

\* C12: every literal that Number::parse_decimal accepts has the exact rational value
\* (integer * 10^|f| + fractional) / 10^|f| * 10^exponent whatever its leading and
\* trailing zeros ("1.10e-0" is 11/10), and parsing the content of the number's span
\* again gives the same value.
C12_ExactValue ==
    [][ /\ ValueIsExact'
        /\ (parsed'.op = "Number::parse_decimal(span)")
              => /\ parsed'.result.res = "Ok"
                 /\ parsed'.result.node.value = parsed.result.node.value ]_vars

C12_Witness ==
    /\ parsed.op = "Number::parse_decimal(span)"
    /\ src = Chars("01.10e-0 ")
    /\ ParsedValue = [mantissa |-> 11, exponent |-> 0 - 1]

\* ------------------------------------------------------------------------
\* Properties of the instructions
\* ------------------------------------------------------------------------
\* The k-th u32 from the top of the stack, as pop_u32 returns it.
TopU32(k) == from_le_bytes(peek(pages, page_size, stack_pointer - U32_BYTES * (k - 1),
                                U32_BYTES).value)

\* C13: memory_copy pops target, count and origin and, whenever both regions lie
\* inside memory, leaves the target region bytewise equal to what the origin region
\* held before the copy, for disjoint and for overlapping regions, changes no byte
\* outside the target region, and decreases stack_pointer by 12.
C13_MemoryCopy ==
    [][ LET target == TopU32(1)
            count == TopU32(2)
            origin == TopU32(3)
            msize == size(pages, page_size)
        IN  (/\ last'.op = "memory_copy"
             /\ stack_pointer >= 3 * U32_BYTES
             /\ target + count <= msize
             /\ origin + count <= msize)
            => /\ last'.result = OK
               /\ stack_pointer' = stack_pointer - 3 * U32_BYTES
               /\ \A a \in 0..(msize - 1) :
                     FlatByte(pages', page_size, a) =
                        IF a >= target /\ a < target + count
                        THEN FlatByte(pages, page_size, origin + (a - target))
                        ELSE FlatByte(pages, page_size, a) ]_vars

\* The u32 that pop_u32 returns once the top `below` bytes of the stack are popped,
\* and the value of the run's width on top of the stack, as pop returns it.
StackU32(below) ==
    from_le_bytes(peek(pages, page_size, stack_pointer - below, U32_BYTES).value)
TopValue == peek(pages, page_size, stack_pointer, t_width).value

\* C14: memory_fill_N pops value, word_count and start_ptr and writes word_count
\* little-endian copies of the value at start_ptr + k * N/8, leaving every byte
\* outside [start_ptr, start_ptr + word_count * N/8) unchanged, when that region
\* lies inside memory.
C14_MemoryFill ==
    [][ LET value == TopValue
            word_count == StackU32(t_width)
            start_ptr == StackU32(t_width + U32_BYTES)
            msize == size(pages, page_size)
        IN  (/\ last'.op = "memory_fill"
             /\ stack_pointer >= t_width + 2 * U32_BYTES
             /\ start_ptr + word_count * t_width <= msize)
            => /\ last'.result = OK
               /\ stack_pointer' = stack_pointer - (t_width + 2 * U32_BYTES)
               /\ \A a \in 0..(msize - 1) :
                     FlatByte(pages', page_size, a) =
                        IF a >= start_ptr /\ a < start_ptr + word_count * t_width
                        THEN value[((a - start_ptr) % t_width) + 1]
                        ELSE FlatByte(pages, page_size, a) ]_vars

\* The pages memory_grow asks for: ceil(n / page_size) for the byte count n it pops.
PagesNeeded == (StackU32(0) + page_size - 1) \div page_size

\* C15: when the growth fits max_pages, memory_grow pops a byte count n, appends
\* exactly ceil(n / page_size) pages, pushes the memory size from before the growth
\* as u32 (a pop_u32 returns it), sets overflow_flag to false and returns Ok, with
\* stack_pointer the same before and after.
C15_MemoryGrowFits ==
    [][ (/\ last'.op = "memory_grow"
         /\ stack_pointer >= U32_BYTES
         /\ Len(pages) + PagesNeeded <= max_pages)
        => /\ last'.result = OK
           /\ Len(pages') = Len(pages) + PagesNeeded
           /\ peek(pages', page_size, stack_pointer', U32_BYTES).value =
                 to_le_bytes(size(pages, page_size), U32_BYTES)
           /\ overflow_flag' = FALSE
           /\ stack_pointer' = stack_pointer ]_vars

\* The outcome when the pages needed exceed max_pages: no page added, overflow_flag
\* set, the stack pointer back where it was after the push of the memory size, Ok.
GrowRefused ==
    (/\ last'.op = "memory_grow"
     /\ stack_pointer >= U32_BYTES
     /\ Len(pages) + PagesNeeded > max_pages)
    => /\ last'.result = OK
       /\ Len(pages') = Len(pages)
       /\ overflow_flag' = TRUE
       /\ stack_pointer' = stack_pointer

C17_CodeNext ==
    [][ (last'.op = "code_next")
        => /\ IF program_counter + t_width <= Len(program)
              THEN /\ last'.result = OK
                   /\ last'.ret = [k \in 1..t_width |-> program[program_counter + k]]
                   /\ program_counter' = program_counter + t_width
              ELSE /\ last'.result = SEGFAULT
                   /\ program_counter' = program_counter
           /\ UNCHANGED <<pages, stack_pointer, overflow_flag>> ]_vars

C17_Witness ==
    /\ last.op = "code_next"
    /\ last.result = SEGFAULT
    /\ program_counter > 0
    /\ program_counter < Len(program)

\* C18: const_N followed by drop_N, both succeeding, leaves stack_pointer where it
\* was and program_counter advanced by N/8; in between, the top N/8 bytes of the
\* stack are the little-endian immediate read at the old program_counter; and
\* drop_N decreases stack_pointer by exactly N/8 whatever widths were pushed before.
C18_ConstDrop ==
    [][ /\ (last'.op = "const" /\ last'.result = OK)
            => /\ program_counter' = program_counter + t_width
               /\ stack_pointer' = stack_pointer + t_width
               /\ FlatRange(pages', page_size, stack_pointer, t_width) =
                     [k \in 1..t_width |-> program[program_counter + k]]
        /\ (last.op = "const" /\ last.result = OK /\ last'.op = "drop" /\ last'.result = OK)
            => /\ stack_pointer' = stack_pointer - t_width
               /\ program_counter' = program_counter
        /\ (last'.op = "drop" /\ stack_pointer >= t_width)
            => /\ last'.result = OK
               /\ stack_pointer' = stack_pointer - t_width ]_vars

C20_StoreLoad ==
    [][ LET msize == size(pages, page_size)
        IN  /\ (last'.op = "memory_store" /\ stack_pointer >= t_width + U32_BYTES)
                => IF StackU32(t_width) + t_width <= msize
                   THEN /\ last'.result = OK
                        /\ stack_pointer' = stack_pointer - (t_width + U32_BYTES)
                        /\ FlatRange(pages', page_size, StackU32(t_width), t_width) = TopValue
                   ELSE last'.result = SEGFAULT
            /\ (last'.op = "memory_load" /\ stack_pointer >= U32_BYTES)
                => IF StackU32(0) + t_width <= msize
                   THEN /\ last'.result = OK
                        /\ stack_pointer' = stack_pointer - U32_BYTES + t_width
                        /\ peek(pages', page_size, stack_pointer', t_width).value =
                              FlatRange(pages, page_size, StackU32(0), t_width)
                   ELSE last'.result = SEGFAULT ]_vars

\* C21: program_data_load_N pops a u32 position p and pushes the width-N value of the
\* program bytes at p when data_pointer <= p and p + N/8 <= data_pointer_end; for
\* every other p it returns Panic("Data Segmentation Fault") and pushes nothing.
C21_ProgramDataLoad ==
    [][ LET p == TopU32(1)
        IN  (last'.op = "program_data_load" /\ stack_pointer >= U32_BYTES)
            => IF data_pointer <= p /\ p + t_width <= data_pointer_end(code_pointer)
               THEN /\ last'.result = OK
                    /\ stack_pointer' = stack_pointer - U32_BYTES + t_width
                    /\ peek(pages', page_size, stack_pointer', t_width).value
                           = SubSeq(program, p + 1, p + t_width)
               ELSE /\ last'.result = DATA_SEGFAULT
                    /\ stack_pointer' = stack_pointer - U32_BYTES
                    /\ pages' = pages ]_vars

\* C22: extend_S_to_T pops an S-bit value and pushes its zero-extension to T bits,
\* extend_sign_S_to_T pushes its two's-complement sign-extension, for every pair of
\* widths and every input value; stack_pointer grows by (T-S)/8.
C22_Extend ==
    [][ LET input == peek(pages, page_size, stack_pointer, t_width).value
            output == peek(pages', page_size, stack_pointer', t_target).value
            high == IF last'.op = "extend_sign" /\ input[t_width] >= 128 THEN 255 ELSE 0
        IN  (last'.op \in {"extend", "extend_sign"} /\ stack_pointer >= t_width)
            => /\ last'.result = OK
               /\ stack_pointer' = stack_pointer + (t_target - t_width)
               /\ \A k \in 1..t_target : output[k] = IF k <= t_width THEN input[k] ELSE high
      ]_vars

\* C23: trunc_T_to_S pops a T-bit value and pushes the low-order S/8 bytes of its
\* little-endian encoding, returning Ok for every pair and every input value; so
\* extend_S_to_T followed by trunc_T_to_S restores the value and stack_pointer.
C23_Trunc ==
    [][ LET input == peek(pages, page_size, stack_pointer, t_target).value
            output == peek(pages', page_size, stack_pointer', t_width).value
        IN  (last'.op = "trunc" /\ stack_pointer >= t_target)
            => /\ last'.result = OK
               /\ stack_pointer' = stack_pointer - (t_target - t_width)
               /\ output = SubSeq(input, 1, t_width)
      ]_vars

\* ------------------------------------------------------------------------
\* C24: digits missing after the decimal separator or after the exponent token
\* ------------------------------------------------------------------------
\* src[a+1..b] is a run of one or more decimal digits.
IsDigitRun(a, b) == a < b /\ b <= Len(src) /\ \A j \in (a + 1)..b : src[j] \in DECIMAL_DIGITS

NoDigitAt(n) == n >= Len(src) \/ src[n + 1] \notin DECIMAL_DIGITS

\* The literal at the start of src is integer digits, then '.', then no digit.
SeparatorWithoutDigits ==
    \E k \in 1..Len(src) :
        /\ IsDigitRun(0, k)
        /\ k < Len(src) /\ src[k + 1] = "."
        /\ NoDigitAt(k + 1)

\* The literal at the start of src is integer digits, maybe '.' and fractional
\* digits, then e or E, maybe + or -, then no digit; n is where the digits of
\* the exponent would start.
ExponentTokenWithoutDigitsAt(n) ==
    \E k \in 1..Len(src), m \in 1..Len(src) :
        /\ IsDigitRun(0, k)
        /\ \/ m = k
           \/ k < Len(src) /\ src[k + 1] = "." /\ IsDigitRun(k + 1, m)
        /\ m < Len(src) /\ src[m + 1] \in {"e", "E"}
        /\ \/ n = m + 1
           \/ n = m + 2 /\ n <= Len(src) /\ src[n] \in {"+", "-"}
        /\ NoDigitAt(n)
        /\ (n = m + 1) => (n >= Len(src) \/ src[n + 1] \notin {"+", "-"})

ExponentTokenWithoutDigits == \E n \in 1..Len(src) : ExponentTokenWithoutDigitsAt(n)

\* C24: Number::parse_decimal on a literal whose '.' is not followed by a digit
\* returns the hard error NumberWithoutDigitsAfterDecimalSeparator, and on one
\* whose e or E, with or without a sign after it, is not followed by a digit the
\* hard error NumberWithoutDigitsAfterExponentToken: never NotFound, never a
\* Number for the part before.
C24_MissingDigits ==
    (parsed.op = "Number::parse_decimal") =>
        /\ SeparatorWithoutDigits =>
              /\ parsed.result.res = "Error"
              /\ parsed.result.kind = "NumberWithoutDigitsAfterDecimalSeparator"
        /\ ExponentTokenWithoutDigits =>
              /\ parsed.result.res = "Error"
              /\ parsed.result.kind = "NumberWithoutDigitsAfterExponentToken"

\* parse_decimal has returned the exponent error for a literal with fractional
\* digits and a signed exponent token.
C24_Witness ==
    /\ parsed.op = "Number::parse_decimal"
    /\ \E n \in 1..Len(src) :
          /\ ExponentTokenWithoutDigitsAt(n)
          /\ src[n] \in {"+", "-"}
          /\ \E k \in 1..n : src[k] = "."
          /\ n < Len(src)
    /\ parsed.result.res = "Error"
    /\ parsed.result.kind = "NumberWithoutDigitsAfterExponentToken"
\* ------------------------------------------------------------------------
\* C25: the limits of the fractional digits and of the exponent
\* ------------------------------------------------------------------------
\* Where the run of decimal digits that starts after src[a] ends.
DigitRunEnd(a) ==
    IF a >= Len(src) THEN a
    ELSE CHOOSE b \in a..Len(src) :
             /\ \A j \in (a + 1)..b : src[j] \in DECIMAL_DIGITS
             /\ NoDigitAt(b)

\* The literal at the start of src: integer digits src[1..k], the mantissa ends
\* at m, the digits of the exponent are src[a+1..n], and a = n = m without an
\* exponent.
LiteralShape(k, m, a, n) ==
    /\ IsDigitRun(0, k)
    /\ \/ m = k /\ NoDigitAt(k) /\ (k = Len(src) \/ src[k + 1] # ".")
       \/ k < Len(src) /\ src[k + 1] = "." /\ IsDigitRun(k + 1, m) /\ NoDigitAt(m)
    /\ \/ a = m /\ n = m /\ (m = Len(src) \/ src[m + 1] \notin {"e", "E"})
       \/ /\ m < Len(src) /\ src[m + 1] \in {"e", "E"}
          /\ \/ a = m + 1
             \/ a = m + 2 /\ a <= Len(src) /\ src[a] \in {"+", "-"}
          /\ IsDigitRun(a, n) /\ NoDigitAt(n)

\* The number the digits denote is above hi * 10^5 + lo, a limit of ten digits.
ExceedsLimit(digits, hi, lo) ==
    LET t == TrimStartZeros(digits)
        high == from_str_radix(SubSeq(t, 1, 5))
        low == from_str_radix(SubSeq(t, 6, 10))
    IN  \/ Len(t) > 10
        \/ Len(t) = 10 /\ (high > hi \/ (high = hi /\ low > lo))

\* u32::MAX = 4294967295 < the fractional digits src[k+2..m] without their trailing zeros.
FractionTooBig(k, m) ==
    m > k /\ ExceedsLimit(TrimEndZeros(SubSeq(src, k + 2, m)), 42949, 67295)

\* The exponent with digits src[a+1..n] is above i32::MAX = 2147483647 or below
\* i32::MIN = -2147483648.
ExponentTooBig(a, n) ==
    /\ n > a
    /\ IF src[a] = "-" THEN ExceedsLimit(SubSeq(src, a + 1, n), 21474, 83648)
                        ELSE ExceedsLimit(SubSeq(src, a + 1, n), 21474, 83647)

WarningCount(kind) == Cardinality({k \in 1..Len(warnings) : warnings[k].kind = kind})

HasLeadingZeros(digits) == Len(digits) > 1 /\ Head(digits) = "0"
IsZero(digits) == digits # <<>> /\ \A k \in 1..Len(digits) : digits[k] = "0"
EndsInZeros(digits) == digits # <<>> /\ digits[Len(digits)] = "0"

\* The defects of the literal just parsed, from its digits as written: 1 or 0.
IntegerDefect == IF HasLeadingZeros(IntegerDigits) THEN 1 ELSE 0
ExponentDefect == IF HasLeadingZeros(ExponentDigits) \/ IsZero(ExponentDigits) THEN 1 ELSE 0
FractionDefect == IF EndsInZeros(FractionalDigits) \/ IsZero(FractionalDigits) THEN 1 ELSE 0

\* C26: with the default ignore flags, a Number that Number::parse_decimal parsed
\* has added one NumberWithLeadingZeroes warning for an integer part with surplus
\* leading zeros ("0" alone has none) and one for an exponent with leading zeros
\* or equal to zero, one NumberWithTrailingZeroes warning for a fractional part
\* that ends in zeros or is all zeros, and no other warning: none without a
\* defect, exactly one with one defect, and one of each kind for "1.10e-0".
C26_Warnings ==
    (/\ parsed.op = "Number::parse_decimal"
     /\ parsed.result.res = "Ok"
     /\ ignore = ParserIgnoreConfig_new) =>
        /\ WarningCount("NumberWithLeadingZeroes") = IntegerDefect + ExponentDefect
        /\ WarningCount("NumberWithTrailingZeroes") = FractionDefect
        /\ Len(warnings) = IntegerDefect + ExponentDefect + FractionDefect
        /\ (SubSeq(src, 1, LiteralEnd) = Chars("1.10e-0")) =>
              /\ Len(warnings) = 2
              /\ WarningCount("NumberWithLeadingZeroes") = 1
              /\ WarningCount("NumberWithTrailingZeroes") = 1

\* "1.10e-0" has been parsed with the default flags and has added its two warnings.
C26_Witness ==
    /\ parsed.op = "Number::parse_decimal"
    /\ parsed.result.res = "Ok"
    /\ ignore = ParserIgnoreConfig_new
    /\ src = Chars("1.10e-0")
    /\ [k \in 1..Len(warnings) |-> warnings[k].kind]
           = <<"NumberWithLeadingZeroes", "NumberWithTrailingZeroes">>

KeywordAt(b) ==
    /\ b + KEYWORD_END <= Len(src)
    /\ SubSeq(src, b + 1, b + KEYWORD_END) = CONST_DECLARATION_KEYWORD
    /\ (b + KEYWORD_END = Len(src)
          \/ src[b + KEYWORD_END + 1] \notin (HEAD_CHARS \cup BODY_CHARS))

IdentifierStartFrom(b) == SkipWhitespace(src, b + KEYWORD_END)

AssignOffsetFrom(b) ==
    SkipWhitespace(src, ReadAnyOf0(src, IdentifierStartFrom(b) + 1, HEAD_CHARS \cup BODY_CHARS))

DeclarationUpToAssign(b) ==
    /\ KeywordAt(b)
    /\ IdentifierStartFrom(b) < Len(src) /\ src[IdentifierStartFrom(b) + 1] \in HEAD_CHARS
    /\ AssignOffsetFrom(b) < Len(src) /\ src[AssignOffsetFrom(b) + 1] = "="

\* What Number::parse_decimal returns where the expression of the declaration
\* that starts at b is read.
NestedNumber(b) == NumberParseDecimal(src, SkipWhitespace(src, AssignOffsetFrom(b) + 1))

\* Where the statement on which the parse ended starts: the start of the input
\* for Statement::parse, after the accepted statements for Module::parse.
LastStatementStart == IF parsed.op = "Module::parse" THEN StopOffset ELSE 0

NumberErrorKinds ==
    {"NumberWithoutDigitsAfterDecimalSeparator", "NumberWithoutDigitsAfterExponentToken",
     "NumberTooBig", "NumberTooBigExponent"}

\* C28: when Number::parse_decimal returns a hard Error for the expression of a
\* const declaration, Statement::parse and Module::parse return that Error, with
\* its kind and its cursor, through every alternative, optional, repeat, tuple and
\* ensure around it; they return an Error of a Number kind in no other case, and
\* the Error ConstDeclarationWithoutExpression that ensure makes is returned only
\* when the expression was NotFound.
C28_ErrorsPropagate ==
    (parsed.op \in {"Statement::parse", "Module::parse"}) =>
        LET r == parsed.result
            b == LastStatementStart
        IN  /\ (DeclarationUpToAssign(b) /\ NestedNumber(b).res = "Error")
                  => /\ r.res = "Error"
                     /\ r.kind = NestedNumber(b).kind
                     /\ r.pos = NestedNumber(b).pos
            /\ (r.res = "Error" /\ r.kind \in NumberErrorKinds)
                  => /\ DeclarationUpToAssign(b)
                     /\ NestedNumber(b).res = "Error"
                     /\ NestedNumber(b).kind = r.kind
            /\ (r.res = "Error" /\ r.kind = "ConstDeclarationWithoutExpression")
                  => /\ DeclarationUpToAssign(b)
                     /\ NestedNumber(b).res = "NotFound"

\* Module::parse has accepted a statement and has returned the Error of the
\* number of the statement after it.
C28_Witness ==
    /\ parsed.op = "Module::parse"
    /\ Len(Accepted) = 1
    /\ DeclarationUpToAssign(StopOffset)
    /\ NestedNumber(StopOffset).res = "Error"
    /\ parsed.result.res = "Error"
    /\ parsed.result.kind = "NumberWithoutDigitsAfterDecimalSeparator"
\* ------------------------------------------------------------------------
\* C29: the keyword is a whole word
\* ------------------------------------------------------------------------
\* Where the identifier at the start of src ends; 0 when there is none.
FirstIdentifierEnd ==
    IF src = <<>> \/ src[1] \notin HEAD_CHARS THEN 0
    ELSE CHOOSE q \in 1..Len(src) :
             /\ \A k \in 2..q : src[k] \in HEAD_CHARS \cup BODY_CHARS
             /\ (q = Len(src) \/ src[q + 1] \notin HEAD_CHARS \cup BODY_CHARS)

FirstIdentifierIsKeyword ==
    SubSeq(src, 1, FirstIdentifierEnd) = CONST_DECLARATION_KEYWORD

\* C29: Identifier::read_keyword("const") returns Ok, having read exactly the
\* keyword, when the whole identifier at the cursor is const, and otherwise
\* NotFound with the input where it was ("constconst" and the like included);
\* so ConstDeclaration::parse returns NotFound with the input where it was for
\* every text that does not start with the identifier const, such as the empty
\* text, a comment and an identifier that only starts with const.
C29_WholeWordKeyword ==
    /\ (parsed.op = "Identifier::read_keyword") =>
          IF FirstIdentifierIsKeyword
          THEN parsed.result.res = "Ok" /\ parsed.result.pos = Len(CONST_DECLARATION_KEYWORD)
          ELSE parsed.result.res = "NotFound" /\ parsed.result.pos = 0
    /\ (parsed.op = "Statement::parse") =>
          /\ ~FirstIdentifierIsKeyword
                => (parsed.result.res = "NotFound" /\ parsed.result.pos = 0)
          /\ (src = <<>> \/ Head(src) = COMMENT_START_TOKEN)
                => (parsed.result.res = "NotFound" /\ parsed.result.pos = 0)

\* read_keyword has returned NotFound, the input where it was, for an identifier
\* that starts with const and goes on.
C29_Witness ==
    /\ parsed.op = "Identifier::read_keyword"
    /\ FirstIdentifierEnd > Len(CONST_DECLARATION_KEYWORD)
    /\ SubSeq(src, 1, Len(CONST_DECLARATION_KEYWORD)) = CONST_DECLARATION_KEYWORD
    /\ parsed.result.res = "NotFound"
    /\ parsed.result.pos = 0
\* ------------------------------------------------------------------------
\* C30: the module covers the whole input
\* ------------------------------------------------------------------------
\* The statements are where the source has them, one after the other: each one
\* starts with the keyword, and only whitespace and comments are before the
\* first one, between two of them and after the last one.
InSourceOrder(statements) ==
    /\ \A i \in 1..Len(statements) :
          /\ KeywordAt(statements[i].start)
          /\ statements[i].start < statements[i].end
          /\ statements[i].start =
                SkipWhitespace(src, IF i = 1 THEN 0 ELSE statements[i - 1].end)
    /\ SkipWhitespace(src, IF statements = <<>> THEN 0
                           ELSE statements[Len(statements)].end) = Len(src)

\* C30: Module::parse returns Ok or a hard Error, never NotFound; when it
\* returns Ok the span of the module is the whole input, the input is at its
\* end, and the statements are those of the source in their order; the empty
\* input gives Ok with no statement and an empty span.
C30_ModuleCoversInput ==
    (parsed.op = "Module::parse") =>
        LET r == parsed.result
        IN  /\ r.res \in {"Ok", "Error"}
            /\ (r.res = "Ok") =>
                  /\ r.node.start = 0
                  /\ r.node.end = Len(src)
                  /\ r.pos = Len(src)
                  /\ InSourceOrder(r.node.statements)
            /\ (src = <<>>) =>
                  /\ r.res = "Ok"
                  /\ r.node.statements = <<>>
                  /\ r.node.start = r.node.end

\* Module::parse has returned Ok with two statements for a text that goes on
\* after the second one.
C30_Witness ==
    /\ parsed.op = "Module::parse"
    /\ parsed.result.res = "Ok"
    /\ Len(parsed.result.node.statements) = 2
    /\ parsed.result.node.statements[2].end < Len(src)
    /\ parsed.result.node.end = Len(src)
\* ------------------------------------------------------------------------
\* C31: what a comment is
\* ------------------------------------------------------------------------
\* The text starts with '#' and the character after it, if any, is not forbidden.
IsComment ==
    /\ src # <<>> /\ src[1] = "#"
    /\ (Len(src) = 1 \/ src[2] \notin {"[", "{", "(", "+", "-"})

\* The offset of the first line break of src, or its length without one.
FirstLineEnd ==
    IF \E k \in 1..Len(src) : src[k] = "\n"
    THEN (CHOOSE k \in 1..Len(src) : src[k] = "\n" /\ \A j \in 1..(k - 1) : src[j] # "\n") - 1
    ELSE Len(src)

\* C31: Comment::parse returns Ok exactly when the text starts with '#' and the
\* character after it, if any, is none of '[', '{', '(', '+', '-', and otherwise
\* NotFound with the input where it was; the comment runs up to the next line
\* break, not included, or to the end of the input, its body may be empty, and
\* message() is the content of the span without the '#'.
C31_Comment ==
    /\ (parsed.op = "Comment::parse") =>
          IF IsComment
          THEN /\ parsed.result.res = "Ok"
               /\ parsed.result.node = [start |-> 0, end |-> FirstLineEnd]
               /\ parsed.result.pos = FirstLineEnd
          ELSE parsed.result.res = "NotFound" /\ parsed.result.pos = 0
    /\ (parsed.op = "Comment::message") =>
          /\ IsComment
          /\ parsed.result.node = SubSeq(src, 2, FirstLineEnd)

\* The message of a comment with a body that a line break ends has been read.
C31_Witness ==
    /\ parsed.op = "Comment::message"
    /\ Len(parsed.result.node) > 0
    /\ FirstLineEnd < Len(src)

\* ------------------------------------------------------------------------
\* C32: the stack size and the page size
\* ------------------------------------------------------------------------
\* C32: the stack size of every processor that Processor::new constructs is a
\* positive multiple of the page size of its memory.
C32_StackSizeMultiple ==
    /\ stack_size > 0
    /\ stack_size % page_size = 0

\* ------------------------------------------------------------------------
\* C33: new_empty with a stack size that is no multiple of the page size
\* ------------------------------------------------------------------------
\* C33: Processor::new_empty with a stack size that is not a multiple of the
\* default page size returns a processor with stack_pointer 0, program_counter 0,
\* a clear overflow flag and one default page of memory, and memory_size then
\* pushes MEMORY_DEFAULT_PAGE_SIZE.
C33_NewEmptySucceeds ==
    (t_index % MEMORY_DEFAULT_PAGE_SIZE # 0) =>
        /\ ~crashed
        /\ Len(pages) = 1
        /\ size(pages, page_size) = MEMORY_DEFAULT_PAGE_SIZE
        /\ program_counter = 0
        /\ overflow_flag = FALSE
        /\ (last.op = "new_empty") => stack_pointer = 0
        /\ (last.op = "memory_size" /\ last.result = OK) =>
              peek(pages, page_size, stack_pointer, U32_BYTES).value
                  = to_le_bytes(MEMORY_DEFAULT_PAGE_SIZE, U32_BYTES)

\* ------------------------------------------------------------------------
\* C34: a branch to a position outside the program
\* ------------------------------------------------------------------------
\* The position is one of the program's bytes.
InsideProgram(position) == position < Len(program)

\* C34: a branch whose popped code position is not inside the program, and a
\* branch_if_N with a non-zero condition and such a code position, return a
\* Panic.
C34_BranchUnavailable ==
    [][ /\ (last'.op = "branch" /\ ~InsideProgram(StackU32(0)))
            => last'.result # OK
        /\ (last'.op = "branch_if" /\ TopValue # Zeros(t_width)
                /\ ~InsideProgram(StackU32(t_width)))
            => last'.result # OK ]_vars

\* ------------------------------------------------------------------------
\* C35: memory_copy with a region outside memory
\* ------------------------------------------------------------------------
\* C35: a memory_copy of more than zero bytes whose origin region or target
\* region is not entirely inside memory returns Panic("Segmentation Fault"),
\* whether the target is below, above or equal to the origin.
C35_CopyOutside ==
    [][ LET target == TopU32(1)
            count == TopU32(2)
            origin == TopU32(3)
            msize == size(pages, page_size)
        IN  (/\ last'.op = "memory_copy"
             /\ stack_pointer >= 3 * U32_BYTES
             /\ count > 0
             /\ (origin + count > msize \/ target + count > msize))
            => last'.result = SEGFAULT ]_vars

\* ------------------------------------------------------------------------
\* C36: the getter of the stack size
\* ------------------------------------------------------------------------
\* C36: in every reachable state Processor::stack_size() returns the stack size
\* given at construction, whatever has been pushed or popped.
C36_StackSizeGetter ==
    (last.op = "stack_size") => last.ret = <<stack_size>>

\* ------------------------------------------------------------------------
\* C37: what a faulting handler leaves behind
\* ------------------------------------------------------------------------
\* The pop of n bytes at stack pointer sp returns a value.
Pops(sp, n) == peek(pages, page_size, sp, n).status = OK

\* const_N that has read its immediate and finds fewer than N/8 free bytes.
ConstOnFullStack ==
    (/\ last'.op = "const"
     /\ program_counter + t_width <= Len(program)
     /\ stack_pointer + t_width > stack_size)
    => /\ last'.result = STACK_OVERFLOW
       /\ program_counter' = program_counter + t_width
       /\ UNCHANGED <<stack_pointer, pages>>

\* memory_load_N and memory_store_N whose popped address is out of range.
AccessOutOfRange ==
    /\ (/\ last'.op = "memory_load"
         /\ Pops(stack_pointer, U32_BYTES)
         /\ StackU32(0) + t_width > size(pages, page_size))
        => /\ last'.result = SEGFAULT
           /\ stack_pointer' = stack_pointer - U32_BYTES
           /\ UNCHANGED pages
    /\ (/\ last'.op = "memory_store"
         /\ Pops(stack_pointer, t_width)
         /\ Pops(stack_pointer - t_width, U32_BYTES)
         /\ StackU32(t_width) + t_width > size(pages, page_size))
        => /\ last'.result = SEGFAULT
           /\ stack_pointer' = stack_pointer - (t_width + U32_BYTES)
           /\ UNCHANGED pages

\* The region of word_count elements of width bytes from start_ptr does not end
\* inside a memory of msize bytes.
RunsPastTheEnd(start_ptr, word_count, width, msize) ==
    \/ start_ptr > msize
    \/ word_count > msize
    \/ start_ptr + word_count * width > msize

\* memory_fill_N whose region runs past the end of memory.
FillPastTheEnd ==
    LET value == TopValue
        word_count == StackU32(t_width)
        start_ptr == StackU32(t_width + U32_BYTES)
        msize == size(pages, page_size)
        fit == IF start_ptr > msize THEN 0 ELSE (msize - start_ptr) \div t_width
    IN  (/\ last'.op = "memory_fill"
         /\ Pops(stack_pointer, t_width)
         /\ Pops(stack_pointer - t_width, U32_BYTES)
         /\ Pops(stack_pointer - t_width - U32_BYTES, U32_BYTES)
         /\ RunsPastTheEnd(start_ptr, word_count, t_width, msize))
        => /\ last'.result = SEGFAULT
           /\ stack_pointer' = stack_pointer - (t_width + 2 * U32_BYTES)
           /\ \A a \in 0..(msize - 1) :
                 FlatByte(pages', page_size, a) =
                    IF a >= start_ptr /\ a < start_ptr + fit * t_width
                    THEN value[((a - start_ptr) % t_width) + 1]
                    ELSE FlatByte(pages, page_size, a)

\* C37: a handler that faults does not roll back.  const_N on a stack with fewer
\* than N/8 free bytes returns Panic("Stack overflow") with program_counter
\* advanced by N/8; memory_load_N and memory_store_N with an out-of-range
\* address return Panic("Segmentation Fault") with their operands popped;
\* memory_fill_N whose region runs past the end of memory returns
\* Panic("Segmentation Fault") with every element that fits written.
C37_NoRollback == [][ConstOnFullStack /\ AccessOutOfRange /\ FillPastTheEnd]_vars

\* ------------------------------------------------------------------------
\* C38: the overflow flag
\* ------------------------------------------------------------------------
\* C38: overflow_flag is false after construction; a memory_grow that gets past
\* its pop leaves it equal to whether this growth failed, so a growth that
\* succeeds clears the flag an earlier one set; a memory_grow that fails in its
\* pop and every other handler leave it unchanged.
C38_OverflowFlag ==
    /\ overflow_flag = FALSE
    /\ [][ /\ (last'.op = "memory_grow" /\ Pops(stack_pointer, U32_BYTES))
                => overflow_flag' = (Len(pages) + PagesNeeded > max_pages)
           /\ (last'.op = "memory_grow" /\ ~Pops(stack_pointer, U32_BYTES))
                => overflow_flag' = overflow_flag
           /\ (last'.op # "memory_grow") => overflow_flag' = overflow_flag ]_vars

\* A growth has succeeded and left the flag clear after an earlier one was
\* refused: the size the refused growth pushed still lies above the stack.
C38_Witness ==
    /\ last.op = "memory_grow"
    /\ last.result = OK
    /\ overflow_flag = FALSE
    /\ Len(pages) = max_pages
    /\ size(pages, page_size) > U32_BYTES * InstrPages
    /\ operands = <<>>
    /\ stack_pointer = U32_BYTES
    /\ FlatRange(pages, page_size, U32_BYTES, U32_BYTES)
           = to_le_bytes(U32_BYTES * InstrPages, U32_BYTES)

\* ------------------------------------------------------------------------
\* C39: the order of the warnings of a literal
\* ------------------------------------------------------------------------
\* The warnings a parsed literal is due under the flags in force: the one on the
\* integer part, then the one on the exponent, then the one on the fractional
\* part.
DueWarnings ==
    (IF IntegerDefect = 1 /\ ~ignore.number_leading_zeroes
     THEN <<[kind |-> "NumberWithLeadingZeroes",
             title |-> "Leading zeroes in the integer part of a number are unnecessary"]>>
     ELSE <<>>)
    \o (IF ExponentDefect = 1 /\ ~ignore.number_leading_zeroes
        THEN <<[kind |-> "NumberWithLeadingZeroes",
                title |-> IF IsZero(ExponentDigits)
                          THEN "The exponent of the number is unnecessary"
                          ELSE "Leading zeroes in the exponent of a number are unnecessary"]>>
        ELSE <<>>)
    \o (IF FractionDefect = 1 /\ ~ignore.number_trailing_zeroes
        THEN <<[kind |-> "NumberWithTrailingZeroes",
                title |-> IF IsZero(FractionalDigits)
                          THEN "The decimal part of the number is unnecessary"
                          ELSE "Trailing zeroes in the decimal part of a number are unnecessary"]>>
        ELSE <<>>)

\* C39: a call of Number::parse_decimal on a context appends to its warnings, in
\* this order, the warning on the integer part, the one on the exponent and the
\* one on the fractional part, at most one of each and three in all, when it
\* returns a Number, and nothing when it returns an Error or NotFound; the
\* warnings the context held stay where they were.  For "1.10e-0" the
\* NumberWithLeadingZeroes warning comes before the NumberWithTrailingZeroes one.
C39_WarningOrder ==
    [][ ((parsed = NoParse /\ parsed'.op = "Number::parse_decimal")
            \/ parsed'.op = "Number::parse_decimal(restored)")
        => /\ warnings' = warnings \o (IF parsed'.result.res = "Ok" THEN DueWarnings' ELSE <<>>)
           /\ Len(warnings') <= Len(warnings) + 3
           /\ (parsed'.result.res = "Ok" /\ SubSeq(src, 1, LiteralEnd') = Chars("1.10e-0")
                  /\ ignore = ParserIgnoreConfig_new)
               => /\ Len(warnings') = Len(warnings) + 2
                  /\ warnings'[Len(warnings) + 1].kind = "NumberWithLeadingZeroes"
                  /\ warnings'[Len(warnings) + 2].kind = "NumberWithTrailingZeroes" ]_vars

\* "01.10e01" has been parsed again on a context that held its three warnings:
\* the context holds them twice, in the order of the checks.
C39_Witness ==
    /\ parsed.op = "Number::parse_decimal(restored)"
    /\ src = Chars("01.10e01")
    /\ Len(warnings) = 6
    /\ [k \in 1..3 |-> warnings[k].kind]
           = <<"NumberWithLeadingZeroes", "NumberWithLeadingZeroes", "NumberWithTrailingZeroes">>

\* ------------------------------------------------------------------------
\* C40: memory instructions and the stack region
\* ------------------------------------------------------------------------
\* memory_store_N is the plain write of the popped value at the popped address,
\* refused only past the end of memory.
StoreIsPlainWrite ==
    LET address == StackU32(t_width)
        w == write_at(pages, page_size, address, TopValue)
    IN  (/\ last'.op = "memory_store"
         /\ Pops(stack_pointer, t_width)
         /\ Pops(stack_pointer - t_width, U32_BYTES))
        => /\ last'.result = w.status
           /\ pages' = w.pages
           /\ (last'.result = SEGFAULT) = (address + t_width > size(pages, page_size))

\* memory_fill_N is the plain writes of its elements, refused only past the end
\* of memory.
FillIsPlainWrites ==
    LET word_count == StackU32(t_width)
        start_ptr == StackU32(t_width + U32_BYTES)
        f == fill_loop(pages, page_size, start_ptr, TopValue, 0, word_count)
    IN  (/\ last'.op = "memory_fill"
         /\ Pops(stack_pointer, t_width)
         /\ Pops(stack_pointer - t_width, U32_BYTES)
         /\ Pops(stack_pointer - t_width - U32_BYTES, U32_BYTES))
        => /\ last'.result = f.status
           /\ pages' = f.pages
           /\ (last'.result = SEGFAULT)
                 => RunsPastTheEnd(start_ptr, word_count, t_width, size(pages, page_size))

\* memory_copy is refused only for a region past the end of memory and changes
\* no byte outside the target region.
CopyChecksMemoryOnly ==
    LET target == TopU32(1)
        count == TopU32(2)
        origin == TopU32(3)
        msize == size(pages, page_size)
    IN  (/\ last'.op = "memory_copy"
         /\ Pops(stack_pointer, U32_BYTES)
         /\ Pops(stack_pointer - U32_BYTES, U32_BYTES)
         /\ Pops(stack_pointer - 2 * U32_BYTES, U32_BYTES))
        => /\ last'.result \notin {STACK_OVERFLOW, STACK_UNDERFLOW}
           /\ (last'.result = SEGFAULT)
                 => (origin + count > msize \/ target + count > msize)
           /\ \A a \in 0..(msize - 1) :
                 (a < target \/ a >= target + count)
                    => FlatByte(pages', page_size, a) = FlatByte(pages, page_size, a)

\* memory_load_N is the plain read at the popped address, refused only past the
\* end of memory, followed by the push of what it read.
LoadIsPlainRead ==
    LET address == StackU32(0)
        r == read_at(pages, page_size, address, Zeros(t_width))
        q == push(pages, page_size, stack_pointer - U32_BYTES, stack_size, r.bytes)
    IN  (/\ last'.op = "memory_load"
         /\ Pops(stack_pointer, U32_BYTES))
        => /\ (r.status = SEGFAULT) = (address + t_width > size(pages, page_size))
           /\ r.status # OK => last'.result = r.status /\ pages' = pages
           /\ r.status = OK => last'.result = q.status /\ pages' = q.pages

\* C40: memory_store_N, memory_fill_N, memory_copy and memory_load_N check their
\* addresses against memory.size() only: an access below stack_size, and below
\* stack_pointer, goes through like any other in-range access, so a store can
\* replace the bytes of a live stack value, which a later pop then returns, and a
\* load can read them.
C40_NoStackProtection ==
    [][StoreIsPlainWrite /\ FillIsPlainWrites /\ CopyChecksMemoryOnly /\ LoadIsPlainRead]_vars

\* On 4-byte pages, memory_store_32 has written zeros at address 0 over the u32
\* pushed first, which is still live: the next pop returns the zeros.
C40_Witness ==
    /\ last.op = "memory_store"
    /\ last.result = OK
    /\ page_size = U32_BYTES
    /\ t_width = U32_BYTES
    /\ stack_pointer = U32_BYTES
    /\ operands = <<>>
    /\ FlatRange(pages, page_size, 0, 3 * U32_BYTES) = Zeros(3 * U32_BYTES)
    /\ pop(pages, page_size, stack_pointer, U32_BYTES).value = Zeros(U32_BYTES)
====
